---- MODULE Spec2Model ----
(***************************************************************************)
(* Verification model of sunbeam's step/plan execution core:               *)
(*   - the plan runner (spec.md 4.2; run_plan lives in sunbeam.core.common, *)
(*     outside the files modelled here, so this part follows spec.md),     *)
(*   - DestroyMachineApplicationStep (sunbeam/core/steps.py),              *)
(*   - DeployMachineApplicationStep  (sunbeam/core/steps.py),              *)
(*   - cordon and drain              (sunbeam/core/k8s.py),                *)
(*   - the control-role and watcher audit steps                            *)
(*                                   (sunbeam/steps/maintenance.py),       *)
(*   - AddMachineUnitsStep           (sunbeam/core/steps.py),              *)
(*   - the skip checks of RemoveMachineUnitsStep and                       *)
(*     PatchLoadBalancerServicesIPStep (sunbeam/core/steps.py).            *)
(* Each component has its own specification (SpecPlan, SpecDestroy,        *)
(* SpecDeploy, SpecDrain, SpecMaint, SpecAddUnits); the variables of the   *)
(* other components stay at their idle values.  SpecDestroyLive adds the   *)
(* fairness of sequential execution to SpecDestroy; SpecIsSkip runs the    *)
(* skip check of one step of any of the five classes that define it.       *)
(***************************************************************************)
EXTENDS Integers, Sequences, FiniteSets, TLC

VARIABLES
    \* ---- plan runner
    plan,          \* the ordered list of steps (step identities)
    pl_idx,        \* position of the step being evaluated
    pl_phase,      \* "skip_check" | "run" | "halted" | "done"
    pl_results,    \* insertion-ordered mapping step -> Outcome, as a sequence of pairs
    pl_log,        \* every is_skip / run invocation made, with its outcome
    \* ---- DestroyMachineApplicationStep and the systems it talks to
    d_tfResources,     \* terraform state holds resources
    d_modelExists,     \* the juju model exists
    d_liveApps,        \* applications of the step present in the model
    d_hasTfResources,  \* self._has_tf_resources
    d_pc,              \* "new" | "checked" | "wait1" | "force" | "wait2" | "returned"
    d_nskip,           \* number of is_skip calls made
    d_skipObs,         \* what the last is_skip call observed
    d_skipResult,      \* outcome of the last is_skip call
    d_runResult,       \* outcome of run
    d_calls,           \* collaborator calls issued by run, in order
    d_found,           \* apps returned by _list_applications after the timeout
    d_i,               \* loop index of the force-destroy loop
    d_liveAtTimeout,   \* applications present when the first wait timed out
    d_tfAtRun,         \* the terraform state held resources when run was entered
    d_pulls,           \* outcome of the state pull of each is_skip call, in order
    \* ---- DeployMachineApplicationStep and the systems it talks to
    p_refresh,         \* self.refresh
    p_modelExists,     \* the juju model exists
    p_appExists,       \* the application exists in the model
    p_units,           \* machine ids of the application's units
    p_pc,              \* "new" | "checked" | "apply" | "wait" | "returned"
    p_nskip,           \* number of is_skip calls made
    p_skipResult,      \* outcome of is_skip
    p_runResult,       \* outcome of run ("RAISED": an exception left run)
    p_machineIds,      \* machine_ids collected by run
    p_calls,           \* collaborator calls issued by run, in order
    p_message,         \* message of the result of run
    \* ---- node lifecycle helpers of sunbeam/core/k8s.py and the cluster they talk to
    k_pods,            \* pods the API lists for the node, in listing order
    k_pc,              \* position inside drain: "idle" | "resolve" | "evict" | "delete" | "done" | "raised"
    k_selected,        \* pods returned by fetch_pods_for_eviction
    k_pvcs,            \* claims returned by fetch_pvc
    k_cordon,          \* how the cordon call ended ("NONE": not called)
    k_calls,           \* API requests issued, in order
    \* ---- the steps of sunbeam/steps/maintenance.py (one step object)
    m_class,           \* class of the step
    m_node,            \* self.node
    m_dryRunArg,       \* dry_run as passed to the constructor ("unset": left out)
    m_dryRun,          \* self.dry_run
    m_audit,           \* the audit of the step (self.audit / the audit created)
    m_failed,          \* local variable failed of RunWatcherAuditStep.run
    m_pc,              \* position inside run: "new" | "get_actions" | "wait" | "returned"
    m_resultType,      \* result type returned by run ("RAISED": an exception left run)
    m_message,         \* message of the result
    m_calls,           \* collaborator calls issued by run, in order
    m_inner,           \* what the collaborator or the underlying step's run handed back
    \* ---- AddMachineUnitsStep and the systems it talks to
    a_names,           \* self.names
    a_cluster,         \* cluster database: node name -> machineid (-1: none)
    a_modelExists,     \* the juju model exists
    a_appExists,       \* the application exists in the model
    a_units,           \* machine ids (strings) of the application's units
    a_configExists,    \* the tfvars config item exists in the cluster database
    a_stored,          \* machine_ids of the stored tfvars (a list)
    a_stored0,         \* machine_ids stored when run was entered
    a_toDeploy,        \* self.to_deploy
    a_pc,              \* "new" | "checked" | "wait" | "returned"
    a_nskip,           \* number of is_skip calls made
    a_skipResult,      \* outcome of the last is_skip call
    a_runResult,       \* outcome of run ("RAISED": an exception left run)
    a_calls,           \* collaborator calls issued, in order
    a_added,           \* the units add_unit returned
    a_task,            \* the background status task: "none" | "running" | "done" | "cancelled"
    a_skipMessage,     \* message of the outcome of the last is_skip call
    a_otherVars,       \* the stored tfvars other than machine_ids ("": none)
    \* ---- RemoveMachineUnitsStep and the systems it talks to
    r_names,           \* self.names
    r_cluster,         \* cluster database: node name -> machineid
    r_modelExists,     \* the juju model exists
    r_appExists,       \* the application exists in the model
    r_units,           \* the application's units: name and machine id
    r_unitsToRemove,   \* self.units_to_remove
    r_pc,              \* "new" | "checked" | "removing" | "wait_gone" | "wait_ready" | "returned"
    r_nskip,           \* number of is_skip calls made
    r_skipResult,      \* outcome of the last is_skip call ("RAISED": an exception left it)
    r_calls,           \* collaborator calls made by run, in order
    r_removed,         \* units the loop of run has passed to remove_unit
    r_runResult,       \* outcome of run ("NONE" before it ends, "RAISED": an exception left it)
    \* ---- PatchLoadBalancerServicesIPStep and the systems it talks to
    l_kubeconfig,      \* the stored kubeconfig: "missing" | "invalid" | "ok"
    l_services,        \* self.services()
    l_objects,         \* the Service objects of the namespace, by name
    l_pc,              \* "new" | "checked" | "running" | "ran"
    l_nskip,           \* number of is_skip calls made
    l_skipResult,      \* outcome of the last is_skip call
    l_annotation,      \* value of the load-balancer IP annotation of each Service object
    l_i,               \* position of run in self.services()
    l_calls,           \* kube.patch calls made by the runs, in order
    l_runResults,      \* outcomes of the runs that have ended ("RAISED": an exception left run)
    \* ---- PatchLoadBalancerServicesIPPoolStep and the systems it talks to
    q_kubeconfig,      \* the stored kubeconfig: "missing" | "invalid" | "ok"
    q_services,        \* self.services()
    q_objects,         \* the Service objects of the namespace, by name
    q_pc,              \* "new" | "running" | "returned"
    q_i,               \* position of run in self.services()
    q_calls,           \* kube.patch calls made by run, in order
    q_runResult,       \* outcome of run ("NONE" before it ends, "RAISED": an exception left it)
    \* ---- CreateLoadBalancerIPPoolsStep and the systems it talks to
    c_kubeconfig,      \* the stored kubeconfig: "missing" | "invalid" | "ok"
    c_ippools,         \* self.ippools(), in the order of the dictionary
    c_pools,           \* the IPAddressPool objects of the namespace, by name
    c_l2,              \* the L2Advertisement objects of the namespace, by name
    c_pc,              \* "new" | "pool" | "l2" | "ran"
    c_i,               \* position of run in self.ippools().items()
    c_calls,           \* kube calls made by the runs, in order
    c_runResults,      \* outcomes of the runs that have ended
    \* ---- every step of core/steps.py
    s_ops              \* collaborator operations invoked by is_skip calls, in order

planVars == <<plan, pl_idx, pl_phase, pl_results, pl_log>>
destroyVars == <<d_tfResources, d_modelExists, d_liveApps, d_hasTfResources, d_pc,
                 d_nskip, d_skipObs, d_skipResult, d_runResult, d_calls, d_found,
                 d_i, d_liveAtTimeout, d_tfAtRun, d_pulls>>
deployVars == <<p_refresh, p_modelExists, p_appExists, p_units, p_pc, p_nskip, p_skipResult,
                p_runResult, p_machineIds, p_calls, p_message>>
k8sVars == <<k_pods, k_pc, k_selected, k_pvcs, k_cordon, k_calls>>
maintVars == <<m_class, m_node, m_dryRunArg, m_dryRun, m_audit, m_failed, m_pc,
               m_resultType, m_message, m_calls, m_inner>>
addVars == <<a_names, a_cluster, a_modelExists, a_appExists, a_units, a_configExists,
             a_stored, a_stored0, a_toDeploy, a_pc, a_nskip, a_skipResult, a_runResult,
             a_calls, a_added, a_task, a_skipMessage, a_otherVars>>
removeVars == <<r_names, r_cluster, r_modelExists, r_appExists, r_units, r_unitsToRemove,
                r_pc, r_nskip, r_skipResult, r_calls, r_removed, r_runResult>>
poolPatchVars == <<q_kubeconfig, q_services, q_objects, q_pc, q_i, q_calls, q_runResult>>
poolsVars == <<c_kubeconfig, c_ippools, c_pools, c_l2, c_pc, c_i, c_calls, c_runResults>>
lbVars == <<l_kubeconfig, l_services, l_objects, l_pc, l_nskip, l_skipResult,
            l_annotation, l_i, l_calls, l_runResults, poolPatchVars, poolsVars>>
skipVars == <<s_ops>>
vars == <<planVars, destroyVars, deployVars, k8sVars, maintVars, addVars, removeVars,
          lbVars, skipVars>>

\* ---------------------------------------------------------------- bounds
MaxPlan == 3        \* longest plan, and number of distinct steps
MaxApps == 2        \* applications handled by one destroy step
MaxSkipCalls == 2   \* is_skip calls made on one step before run
MaxMachines == 3    \* machines that may host a unit
MaxPods == 2        \* pods scheduled on the node being drained
MaxAttempts == 4    \* attempts the retrying watcher helpers make before RetryError
MaxMachineId == 2   \* largest machine id in the cluster database of the add-units step
MaxRuns == 2        \* runs made of one load-balancer step

\* ---------------------------------------------------------------- outcomes
COMPLETED == "COMPLETED"
FAILED == "FAILED"
SKIPPED == "SKIPPED"
ResultType == {COMPLETED, FAILED, SKIPPED}

\* ================================================================ float arithmetic
\* Python evaluates  int(T * 0.8)  and  int(T * (1 - 0.8))  in IEEE-754 binary64.
\* Naturals of any size are little-endian sequences of limbs below LimbBase,
\* without leading zero limbs; a float is m * 2^(-e) with m such a natural.
LimbBase == 2^15

DoubleMantissaBits == 53

RECURSIVE BFromInt(_)
BFromInt(n) == IF n = 0 THEN <<>> ELSE <<n % LimbBase>> \o BFromInt(n \div LimbBase)

RECURSIVE BToInt(_)
BToInt(x) == IF x = <<>> THEN 0 ELSE x[1] + LimbBase * BToInt(Tail(x))

RECURSIVE BNorm(_)
BNorm(x) ==
    IF x = <<>> THEN <<>>
    ELSE IF x[Len(x)] = 0 THEN BNorm(SubSeq(x, 1, Len(x) - 1)) ELSE x

RECURSIVE BMulCarry(_, _, _)
BMulCarry(x, k, c) ==
    IF x = <<>> THEN BFromInt(c)
    ELSE LET v == x[1] * k + c
         IN <<v % LimbBase>> \o BMulCarry(Tail(x), k, v \div LimbBase)

\* x * k for a small k
BMulSmall(x, k) == BNorm(BMulCarry(x, k, 0))

RECURSIVE BShl(_, _)
\* x * 2^s (the test on Len(y) only makes TLC evaluate y before it recurses)
BShl(x, s) ==
    IF s = 0 THEN x
    ELSE LET y == BMulSmall(x, 2) IN IF Len(y) >= 0 THEN BShl(y, s - 1) ELSE <<>>

BOdd(x) == x # <<>> /\ x[1] % 2 = 1

\* floor(x / 2)
BHalf(x) ==
    BNorm([i \in 1..Len(x) |->
             (x[i] \div 2)
               + (IF i < Len(x) /\ x[i + 1] % 2 = 1 THEN LimbBase \div 2 ELSE 0)])

RECURSIVE BInc(_)
BInc(x) ==
    IF x = <<>> THEN <<1>>
    ELSE IF x[1] + 1 < LimbBase THEN <<x[1] + 1>> \o Tail(x)
         ELSE <<0>> \o BInc(Tail(x))

RECURSIVE BSubBorrow(_, _, _)
BSubBorrow(x, y, b) ==
    IF x = <<>> THEN <<>>
    ELSE LET yi == IF y = <<>> THEN 0 ELSE y[1]
             v == x[1] - yi - b
         IN <<IF v < 0 THEN v + LimbBase ELSE v>>
              \o BSubBorrow(Tail(x), IF y = <<>> THEN <<>> ELSE Tail(y),
                            IF v < 0 THEN 1 ELSE 0)

\* x - y for x >= y
BSub(x, y) == BNorm(BSubBorrow(x, y, 0))

RECURSIVE BDivRem(_, _, _)
\* quotient limbs (little-endian) and remainder of x / d, x taken from its top limb
BDivRem(x, d, r) ==
    IF x = <<>> THEN [quot |-> <<>>, rem |-> r]
    ELSE LET v == r * LimbBase + x[Len(x)]
             lower == BDivRem(SubSeq(x, 1, Len(x) - 1), d, v % d)
         IN [quot |-> Append(lower.quot, v \div d), rem |-> lower.rem]

\* floor(x / d) and x mod d for a small d
BDivSmall(x, d) ==
    LET qr == BDivRem(x, d, 0) IN [quot |-> BNorm(qr.quot), rem |-> qr.rem]

RECURSIVE SmallBitLen(_)
SmallBitLen(n) == IF n = 0 THEN 0 ELSE 1 + SmallBitLen(n \div 2)

BBitLen(x) ==
    IF x = <<>> THEN 0 ELSE 15 * (Len(x) - 1) + SmallBitLen(x[Len(x)])

RECURSIVE ShiftRound(_, _, _, _)
\* q shifted right by n bits, rounded to nearest, ties to even
ShiftRound(q, n, guard, sticky) ==
    IF n = 0 THEN (IF guard /\ (sticky \/ BOdd(q)) THEN BInc(q) ELSE q)
    ELSE LET h == BHalf(q)
             st == sticky \/ guard
         IN IF Len(h) >= 0 /\ st \in BOOLEAN
            THEN ShiftRound(h, n - 1, BOdd(q), st) ELSE <<>>

\* The binary64 nearest to m * 2^(-e) (plus a non-zero remainder below m when
\* inexact is TRUE).
FRound(m, e, inexact) ==
    LET s == BBitLen(m) - DoubleMantissaBits
    IN IF s <= 0 THEN [m |-> m, e |-> e]
       ELSE [m |-> ShiftRound(m, s, FALSE, inexact), e |-> e - s]

\* The binary64 a decimal literal n/d denotes (correctly rounded), 0 < n/d < 2^10.
FLiteral(n, d) ==
    LET qr == BDivSmall(BShl(BFromInt(n), 64), d)
    IN FRound(qr.quot, 64, qr.rem # 0)

\* float(k) for an int k
FOfInt(k) == [m |-> BFromInt(k), e |-> 0]

\* a - b in binary64, a >= b
FSub(a, b) ==
    LET e == IF a.e > b.e THEN a.e ELSE b.e
    IN FRound(BSub(BShl(a.m, e - a.e), BShl(b.m, e - b.e)), e, FALSE)

\* k * f in binary64 for an int k below LimbBase (the int is converted exactly)
FMulInt(k, f) == FRound(BMulSmall(f.m, k), f.e, FALSE)

RECURSIVE BShr(_, _)
\* floor(x / 2^s)
BShr(x, s) ==
    IF s = 0 THEN x
    ELSE LET h == BHalf(x) IN IF Len(h) >= 0 THEN BShr(h, s - 1) ELSE <<>>

\* int(f) for f >= 0: truncation
FTrunc(f) == BToInt(BShr(f.m, f.e))

\* ================================================================ plan runner
StepIds == 1..MaxPlan

Injective(s) == \A i, j \in 1..Len(s) : i # j => s[i] # s[j]

Plans == UNION {{s \in [1..n -> StepIds] : Injective(s)} : n \in 0..MaxPlan}

\* Phase after the step at pl_idx has been dealt with and the plan goes on.
NextStepPhase(i) == IF i + 1 > Len(plan) THEN "done" ELSE "skip_check"

AfterSkipCheck_Continue(out) ==
    CASE out = SKIPPED -> "next"
      [] out = FAILED -> "next"
      [] OTHER -> "run"

AfterSkipCheck_RunSkipped(out) ==
    CASE out = SKIPPED -> "run"
      [] out = FAILED -> "halt"
      [] OTHER -> "run"

\* What the runner does with an is_skip outcome: SKIPPED: record and continue,
\* FAILED: record and halt, otherwise invoke run.
AfterSkipCheck(out) ==
    CASE out = SKIPPED -> "next"
      [] out = FAILED -> "halt"
      [] OTHER -> "run"

AfterRun_Continue(out) == "next"

\* What the runner does with a run outcome: record it, halt if FAILED.
AfterRun(out) == IF out = FAILED THEN "halt" ELSE "next"

PlanInit ==
    /\ plan \in Plans
    /\ pl_idx = 1
    /\ pl_phase = IF Len(plan) = 0 THEN "done" ELSE "skip_check"
    /\ pl_results = <<>>
    /\ pl_log = <<>>

\* The runner evaluates is_skip of the current step.
PlanIsSkip ==
    /\ pl_phase = "skip_check"
    /\ \E out \in ResultType :
         LET s == plan[pl_idx]
             todo == AfterSkipCheck(out)
         IN /\ pl_log' = Append(pl_log, [step |-> s, op |-> "is_skip", out |-> out])
            /\ pl_results' = IF out = COMPLETED THEN pl_results
                             ELSE Append(pl_results, <<s, out>>)
            /\ pl_phase' = CASE todo = "next" -> NextStepPhase(pl_idx)
                             [] todo = "halt" -> "halted"
                             [] OTHER -> "run"
            /\ pl_idx' = IF todo = "next" THEN pl_idx + 1 ELSE pl_idx
    /\ UNCHANGED <<plan, destroyVars, deployVars, k8sVars, maintVars, addVars,
                   removeVars, lbVars, skipVars>>

\* The runner invokes run of the current step and records its outcome.
PlanRun ==
    /\ pl_phase = "run"
    /\ \E out \in {COMPLETED, FAILED} :
         LET s == plan[pl_idx]
             todo == AfterRun(out)
         IN /\ pl_log' = Append(pl_log, [step |-> s, op |-> "run", out |-> out])
            /\ pl_results' = Append(pl_results, <<s, out>>)
            /\ pl_phase' = IF todo = "halt" THEN "halted" ELSE NextStepPhase(pl_idx)
            /\ pl_idx' = IF todo = "halt" THEN pl_idx ELSE pl_idx + 1
    /\ UNCHANGED <<plan, destroyVars, deployVars, k8sVars, maintVars, addVars,
                   removeVars, lbVars, skipVars>>

PlanIdle ==
    /\ plan = <<>>
    /\ pl_idx = 1
    /\ pl_phase = "done"
    /\ pl_results = <<>>
    /\ pl_log = <<>>

DestroyIdle ==
    /\ d_tfResources = FALSE
    /\ d_modelExists = FALSE
    /\ d_liveApps = {}
    /\ d_hasTfResources = FALSE
    /\ d_pc = "returned"
    /\ d_nskip = 0
    /\ d_skipObs = [pulled |-> "none", apps |-> {}, model |-> FALSE]
    /\ d_skipResult = "NONE"
    /\ d_runResult = "NONE"
    /\ d_calls = <<>>
    /\ d_found = <<>>
    /\ d_i = 1
    /\ d_liveAtTimeout = {}
    /\ d_tfAtRun = FALSE
    /\ d_pulls = <<>>

DeployIdle ==
    /\ p_refresh = FALSE
    /\ p_modelExists = FALSE
    /\ p_appExists = FALSE
    /\ p_units = {}
    /\ p_pc = "returned"
    /\ p_nskip = 0
    /\ p_skipResult = "NONE"
    /\ p_runResult = "NONE"
    /\ p_machineIds = {}
    /\ p_calls = <<>>
    /\ p_message = ""

K8sIdle ==
    /\ k_pods = <<>>
    /\ k_pc = "off"
    /\ k_selected = <<>>
    /\ k_pvcs = <<>>
    /\ k_cordon = "NONE"
    /\ k_calls = <<>>

NoMsg == [kind |-> "none", id |-> <<>>, audit |-> "", actions |-> <<>>, text |-> "",
          node |-> "", result |-> ""]

NoInner == [out |-> "none", node |-> "", result |-> "", text |-> ""]

MaintIdle ==
    /\ m_class = "none"
    /\ m_node = ""
    /\ m_dryRunArg = "unset"
    /\ m_dryRun = TRUE
    /\ m_audit = ""
    /\ m_failed = FALSE
    /\ m_pc = "returned"
    /\ m_resultType = "NONE"
    /\ m_message = NoMsg
    /\ m_calls = <<>>
    /\ m_inner = NoInner

\* a result without a message
NoSkipMessage == [kind |-> "none", nodes |-> {}]

AddIdle ==
    /\ a_names = <<>>
    /\ a_cluster = <<>>
    /\ a_modelExists = FALSE
    /\ a_appExists = FALSE
    /\ a_units = {}
    /\ a_configExists = FALSE
    /\ a_stored = <<>>
    /\ a_stored0 = <<>>
    /\ a_toDeploy = {}
    /\ a_pc = "returned"
    /\ a_nskip = 0
    /\ a_skipResult = "NONE"
    /\ a_runResult = "NONE"
    /\ a_calls = <<>>
    /\ a_added = {}
    /\ a_task = "none"
    /\ a_skipMessage = NoSkipMessage
    /\ a_otherVars = ""

RemoveIdle ==
    /\ r_names = <<>>
    /\ r_cluster = <<>>
    /\ r_modelExists = FALSE
    /\ r_appExists = FALSE
    /\ r_units = {}
    /\ r_unitsToRemove = {}
    /\ r_pc = "returned"
    /\ r_nskip = 0
    /\ r_skipResult = "NONE"
    /\ r_calls = <<>>
    /\ r_removed = {}
    /\ r_runResult = "NONE"

PoolPatchIdle ==
    /\ q_kubeconfig = "missing"
    /\ q_services = <<>>
    /\ q_objects = <<>>
    /\ q_pc = "returned"
    /\ q_i = 0
    /\ q_calls = <<>>
    /\ q_runResult = "NONE"

PoolsIdle ==
    /\ c_kubeconfig = "missing"
    /\ c_ippools = <<>>
    /\ c_pools = <<>>
    /\ c_l2 = <<>>
    /\ c_pc = "returned"
    /\ c_i = 0
    /\ c_calls = <<>>
    /\ c_runResults = <<>>

PatchLBIdle ==
    /\ l_kubeconfig = "missing"
    /\ l_services = <<>>
    /\ l_objects = <<>>
    /\ l_annotation = <<>>
    /\ l_pc = "returned"
    /\ l_nskip = 0
    /\ l_skipResult = "NONE"
    /\ l_i = 0
    /\ l_calls = <<>>
    /\ l_runResults = <<>>
    /\ PoolPatchIdle /\ PoolsIdle

SkipIdle == s_ops = <<>>

InitPlan == PlanInit /\ DestroyIdle /\ DeployIdle /\ K8sIdle /\ MaintIdle /\ AddIdle
    /\ RemoveIdle /\ PatchLBIdle /\ SkipIdle

NextPlan == PlanIsSkip \/ PlanRun

SpecPlan == InitPlan /\ [][NextPlan]_vars

\* ================================================================ DestroyMachineApplicationStep
\* self.applications
DApplications == [i \in 1..MaxApps |-> i]

\* get_application_timeout()
ApplicationTimeout == 600

\* timeout_factor = 0.8
TimeoutFactor == FLiteral(8, 10)

\* int(self.get_application_timeout() * timeout_factor)
FirstWaitBudget(T) == FTrunc(FMulInt(T, TimeoutFactor))

SecondWaitBudget_Full(T) == T

\* int(self.get_application_timeout() * (1 - timeout_factor))
SecondWaitBudget(T) == FTrunc(FMulInt(T, FSub(FOfInt(1), TimeoutFactor)))

\* _list_applications: the applications of the step found in the model, in
\* the order of self.applications (those not found are passed over).
ListApplications(apps, live) == SelectSeq(apps, LAMBDA a : a \in live)

\* is_skip, second try block: a missing model counts as no juju resources.
HasJujuResources(modelExists, live) ==
    IF modelExists THEN Len(ListApplications(DApplications, live)) > 0 ELSE FALSE

IsSkipResult_Either(hasTf, hasJuju) ==
    IF ~hasTf \/ ~hasJuju THEN SKIPPED ELSE COMPLETED

\* is_skip, the final test
IsSkipResult(hasTf, hasJuju) ==
    IF ~hasTf /\ ~hasJuju THEN SKIPPED ELSE COMPLETED

NeedsApply_Never(hasTf) == FALSE

NeedsApply_Always(hasTf) == TRUE

\* run: the terraform destroy is applied only if self._has_tf_resources
NeedsApply(hasTf) == hasTf

AfterApply_BestEffort(ok) == "wait"

\* run: a TerraformException of the apply returns FAILED at once
AfterApply(ok) == IF ok THEN "wait" ELSE "fail"

\* run: a TimeoutException of the first wait leads to the force-destroy path
AfterFirstWait(timedOut) == IF timedOut THEN "force" ELSE "return"

AfterDestroy_Break(i, ok, n) == IF ok THEN i + 1 ELSE n + 1

\* run: the force-destroy loop goes on to the next application, also after a
\* JujuError (continue)
AfterDestroy(i, ok, n) == i + 1

AfterSecondWait_Completed(timedOut) == COMPLETED

\* run: a TimeoutException of the second wait is the final failure
AfterSecondWait(timedOut) == IF timedOut THEN FAILED ELSE COMPLETED

Call(op, arg, ok) == [op |-> op, arg |-> arg, ok |-> ok]

\* one collaborator operation invoked by the is_skip of a step
SkipOp(step, op) == [step |-> step, op |-> op]
SkipOps(step, ops) == [i \in 1..Len(ops) |-> SkipOp(step, ops[i])]

DestroySkipOps_Applies(modelExists) == <<"pull_state", "update_tfvars_and_apply_tf">>

\* DestroyMachineApplicationStep.is_skip: the collaborator operations it invokes
DestroySkipOps(modelExists) ==
    <<"pull_state", "get_model">>
    \o (IF modelExists
        THEN [i \in 1..Len(DApplications) |-> "get_application"] \o <<"disconnect">>
        ELSE <<>>)

\* the budgets run passes to its first and to its second _wait_applications_gone
GracefulBudget == FirstWaitBudget(ApplicationTimeout)
ForcefulBudget == SecondWaitBudget(ApplicationTimeout)

DestroyInit ==
    /\ d_tfResources \in BOOLEAN
    /\ d_modelExists \in BOOLEAN
    /\ d_liveApps \in SUBSET {DApplications[i] : i \in 1..MaxApps}
    /\ (~d_modelExists => d_liveApps = {})
    /\ d_hasTfResources = FALSE
    /\ d_pc = "new"
    /\ d_nskip = 0
    /\ d_skipObs = [pulled |-> "none", apps |-> {}, model |-> FALSE]
    /\ d_skipResult = "NONE"
    /\ d_runResult = "NONE"
    /\ d_calls = <<>>
    /\ d_found = <<>>
    /\ d_i = 1
    /\ d_liveAtTimeout = {}
    /\ d_tfAtRun = FALSE
    /\ d_pulls = <<>>

\* is_skip: pull the terraform state (the pull may fail, which leaves
\* _has_tf_resources as it was), look the applications up, decide.
DestroyIsSkip ==
    /\ d_pc \in {"new", "checked"}
    /\ d_nskip < MaxSkipCalls
    /\ \E pullOk \in BOOLEAN :
         LET hasTf == IF pullOk THEN d_tfResources ELSE d_hasTfResources
             hasJuju == HasJujuResources(d_modelExists, d_liveApps)
         IN /\ d_hasTfResources' = hasTf
            /\ d_skipResult' = IsSkipResult(hasTf, hasJuju)
            /\ d_skipObs' = [pulled |-> IF ~pullOk THEN "error"
                                        ELSE IF d_tfResources THEN "resources"
                                        ELSE "empty",
                             apps |-> d_liveApps,
                             model |-> d_modelExists]
            /\ d_pulls' = Append(d_pulls, IF ~pullOk THEN "error"
                                          ELSE IF d_tfResources THEN "resources"
                                          ELSE "empty")
    /\ d_nskip' = d_nskip + 1
    /\ d_pc' = "checked"
    /\ s_ops' = s_ops \o SkipOps("DestroyMachineApplicationStep", DestroySkipOps(d_modelExists))
    /\ UNCHANGED <<d_tfResources, d_modelExists, d_liveApps, d_runResult, d_calls,
                   d_found, d_i, d_liveAtTimeout, d_tfAtRun>>
    /\ UNCHANGED <<planVars, deployVars, k8sVars, maintVars, addVars, removeVars, lbVars>>

\* run, first part: the terraform destroy apply, if there is state to destroy.
DestroyRunApply ==
    /\ d_pc = "checked"
    /\ d_skipResult = COMPLETED
    /\ d_tfAtRun' = d_tfResources
    /\ IF NeedsApply(d_hasTfResources)
       THEN \E ok \in BOOLEAN :
              /\ d_calls' = Append(d_calls, Call("apply", 0, ok))
              /\ d_tfResources' = IF ok THEN FALSE ELSE d_tfResources
              /\ IF AfterApply(ok) = "fail"
                 THEN d_pc' = "returned" /\ d_runResult' = FAILED
                 ELSE d_pc' = "wait1" /\ d_runResult' = d_runResult
       ELSE /\ d_pc' = "wait1"
            /\ UNCHANGED <<d_calls, d_tfResources, d_runResult>>
    /\ UNCHANGED <<d_modelExists, d_liveApps, d_hasTfResources, d_nskip, d_skipObs,
                   d_skipResult, d_found, d_i, d_liveAtTimeout, d_pulls>>
    /\ UNCHANGED <<planVars, deployVars, k8sVars, maintVars, addVars, removeVars, lbVars, skipVars>>

\* run: the first wait for the applications to be gone. While it waits any of
\* the applications may disappear; it times out iff some are left. On a
\* timeout the applications still present are listed for the force-destroy loop.
DestroyRunWait1 ==
    /\ d_pc = "wait1"
    /\ \E remaining \in SUBSET d_liveApps :
         LET timedOut == remaining # {}
             found == ListApplications(DApplications, remaining)
             todo == AfterFirstWait(timedOut)
         IN /\ d_liveApps' = remaining
            /\ d_calls' = Append(d_calls,
                 Call("wait", GracefulBudget, ~timedOut))
            /\ IF todo = "force"
               THEN /\ d_found' = found
                    /\ d_liveAtTimeout' = remaining
                    /\ d_pc' = IF Len(found) = 0 THEN "wait2" ELSE "force"
                    /\ d_runResult' = d_runResult
               ELSE /\ d_pc' = "returned"
                    /\ d_runResult' = COMPLETED
                    /\ UNCHANGED <<d_found, d_liveAtTimeout>>
    /\ d_i' = 1
    /\ UNCHANGED <<d_tfResources, d_modelExists, d_hasTfResources, d_nskip, d_skipObs,
                   d_skipResult, d_tfAtRun, d_pulls>>
    /\ UNCHANGED <<planVars, deployVars, k8sVars, maintVars, addVars, removeVars, lbVars, skipVars>>

\* run: one iteration of the force-destroy loop; the destroy call may fail
\* with a JujuError. After the last application the model is disconnected and
\* the second wait starts.
DestroyForceDestroy ==
    /\ d_pc = "force"
    /\ d_i <= Len(d_found)
    /\ \E ok \in BOOLEAN :
         LET nxt == AfterDestroy(d_i, ok, Len(d_found))
         IN /\ d_calls' = Append(d_calls, Call("destroy", d_found[d_i], ok))
            /\ d_i' = nxt
            /\ d_pc' = IF nxt > Len(d_found) THEN "wait2" ELSE "force"
    /\ UNCHANGED <<d_tfResources, d_modelExists, d_liveApps, d_hasTfResources,
                   d_nskip, d_skipObs, d_skipResult, d_runResult, d_found,
                   d_liveAtTimeout, d_tfAtRun, d_pulls>>
    /\ UNCHANGED <<planVars, deployVars, k8sVars, maintVars, addVars, removeVars, lbVars, skipVars>>

\* run: the second wait, and the final outcome.
DestroyRunWait2 ==
    /\ d_pc = "wait2"
    /\ \E remaining \in SUBSET d_liveApps :
         LET timedOut == remaining # {}
         IN /\ d_liveApps' = remaining
            /\ d_calls' = Append(d_calls,
                 Call("wait", ForcefulBudget, ~timedOut))
            /\ d_runResult' = AfterSecondWait(timedOut)
    /\ d_pc' = "returned"
    /\ UNCHANGED <<d_tfResources, d_modelExists, d_hasTfResources, d_nskip, d_skipObs,
                   d_skipResult, d_found, d_i, d_liveAtTimeout, d_tfAtRun, d_pulls>>
    /\ UNCHANGED <<planVars, deployVars, k8sVars, maintVars, addVars, removeVars, lbVars, skipVars>>

InitDestroy == PlanIdle /\ DestroyInit /\ DeployIdle /\ K8sIdle /\ MaintIdle /\ AddIdle
    /\ RemoveIdle /\ PatchLBIdle /\ SkipIdle

NextDestroy ==
    \/ DestroyIsSkip
    \/ DestroyRunApply
    \/ DestroyRunWait1
    \/ DestroyForceDestroy
    \/ DestroyRunWait2

SpecDestroy == InitDestroy /\ [][NextDestroy]_vars

\* run is straight-line code: once entered, each of its statements is executed;
\* the waits end by their finite timeout at the latest.
SpecDestroyLive ==
    /\ InitDestroy
    /\ [][NextDestroy]_vars
    /\ WF_vars(DestroyRunWait1)
    /\ WF_vars(DestroyForceDestroy)
    /\ WF_vars(DestroyRunWait2)

\* ---------------------------------------------------------------- destroy claims
CallIdx == 1..Len(d_calls)

IsWait(k) == d_calls[k].op = "wait"

\* the first wait of the run is at position k
IsFirstWait(k) == IsWait(k) /\ \A j \in 1..(k - 1) : ~IsWait(j)

\* the second wait of the run is at position k
IsSecondWait(k) == IsWait(k) /\ \E j \in 1..(k - 1) : IsFirstWait(j)

FirstWaitTimedOut == \E k \in CallIdx : IsFirstWait(k) /\ ~d_calls[k].ok

\* C5: is_skip returns SKIPPED whenever the state it pulled has no resources
\* and none of the applications exists (or the model is missing), and issues
\* no terraform apply and no force-destroy call; it returns COMPLETED when the
\* pulled state has resources or at least one application exists.
C5_SkipIffNothingToDestroy ==
    d_pc = "checked"
        => /\ (d_skipObs.pulled = "empty" /\ (d_skipObs.apps = {} \/ ~d_skipObs.model))
                => d_skipResult = SKIPPED
           /\ (d_skipObs.pulled = "resources" \/ d_skipObs.apps # {})
                => d_skipResult = COMPLETED
           /\ d_calls = <<>>

C5_Witness ==
    /\ d_pc = "checked"
    /\ d_skipResult = SKIPPED
    /\ d_skipObs.pulled = "empty"
    /\ ~d_skipObs.model
    /\ d_calls = <<>>

\* C6: when the first wait timed out, a force-destroy call is issued for every
\* application present at that moment, also after another force-destroy call
\* failed, and a second wait follows the calls.
C6_ForceDestroyEveryRemaining ==
    (FirstWaitTimedOut /\ d_pc \in {"wait2", "returned"})
        => /\ \A a \in d_liveAtTimeout :
                \E k \in CallIdx : d_calls[k].op = "destroy" /\ d_calls[k].arg = a
           /\ d_pc = "returned"
                => /\ IsSecondWait(Len(d_calls))
                   /\ \A k \in CallIdx :
                        d_calls[k].op = "destroy"
                            => \E j \in 1..(k - 1) : IsFirstWait(j)

C6_Witness ==
    /\ d_pc = "returned"
    /\ Cardinality(d_liveAtTimeout) >= 2
    /\ \E k \in CallIdx :
         /\ d_calls[k].op = "destroy"
         /\ ~d_calls[k].ok
         /\ k + 1 \in CallIdx
         /\ d_calls[k + 1].op = "destroy"
    /\ IsSecondWait(Len(d_calls))

\* C7 (as claimed): the first wait is budgeted 0.8*T seconds and the second
\* wait exactly 0.2*T seconds.
C7_BudgetsAreExactFractions ==
    \A k \in CallIdx :
        /\ IsFirstWait(k) => 5 * d_calls[k].arg = 4 * ApplicationTimeout
        /\ IsSecondWait(k) => 5 * d_calls[k].arg = ApplicationTimeout

CallsOf(op) == {k \in CallIdx : d_calls[k].op = op}

C29_Counts ==
    /\ Cardinality(CallsOf("apply")) <= 1
    /\ Cardinality(CallsOf("wait")) <= 2
    /\ \A a \in {DApplications[i] : i \in 1..MaxApps} :
          Cardinality({k \in CallsOf("destroy") : d_calls[k].arg = a}) <= 1

C29_Budgets ==
    /\ \A k \in CallsOf("wait") : d_calls[k].arg <= ApplicationTimeout
    /\ \A j, k \in CallsOf("wait") :
          j < k => d_calls[j].arg + d_calls[k].arg <= ApplicationTimeout

C29_InRun == d_pc \in {"wait1", "force", "wait2"}

\* C29: DestroyMachineApplicationStep.run always terminates, after at most one
\* terraform destroy apply, at most two waits for disappearance and at most one
\* force-destroy call per application, and the budgets of its two waits sum to
\* no more than get_application_timeout().
C29_TerminatesWithinBounds ==
    /\ [](C29_Counts /\ C29_Budgets)
    /\ (C29_InRun ~> (d_pc = "returned"))

C29_Witness ==
    /\ d_pc = "returned"
    /\ Cardinality(CallsOf("apply")) = 1
    /\ Cardinality(CallsOf("wait")) = 2
    /\ Cardinality(CallsOf("destroy")) = MaxApps

\* run has taken its decision about the terraform destroy apply
C30_RunEntered == d_pc \in {"wait1", "force", "wait2", "returned"} /\ d_pulls # <<>>

\* the pulls that succeeded, by position
C30_GoodPulls == {i \in 1..Len(d_pulls) : d_pulls[i] # "error"}

C30_LastGoodPullHadResources ==
    \E i \in C30_GoodPulls :
        /\ d_pulls[i] = "resources"
        /\ \A j \in C30_GoodPulls : j <= i

\* C30 (as claimed): run issues the terraform destroy apply if and only if the
\* immediately preceding is_skip call pulled a state with resources; when that
\* call found an empty state or failed to pull, run issues no apply and starts
\* with the wait.
C30_ApplyIffLastSkipPulledResources ==
    C30_RunEntered
        => /\ (CallsOf("apply") # {}) <=> (d_pulls[Len(d_pulls)] = "resources")
           /\ (CallsOf("apply") = {} /\ d_calls # <<>>) => d_calls[1].op = "wait"

\* C30 (amended): run issues the terraform destroy apply if and only if the
\* most recent is_skip call of the step whose pull succeeded found a state
\* with resources (a failed pull leaves the earlier finding in force; with no
\* successful pull there is no apply); without an apply run starts with the
\* wait, with one the apply is its first call.
C30_ApplyIffLastGoodPullHadResources ==
    C30_RunEntered
        => /\ (CallsOf("apply") # {}) <=> C30_LastGoodPullHadResources
           /\ d_calls # <<>>
                => d_calls[1].op = IF C30_LastGoodPullHadResources THEN "apply" ELSE "wait"

C30_Witness ==
    /\ C30_RunEntered
    /\ Len(d_pulls) = 2
    /\ d_pulls[1] = "resources"
    /\ d_pulls[2] = "error"
    /\ CallsOf("apply") # {}

\* ================================================================ DeployMachineApplicationStep
Machines == 1..MaxMachines

RAISED == "RAISED"

\* jhelper.get_model: the model, or ModelNotFoundException
GetModel(modelExists) == IF modelExists THEN "model" ELSE "ModelNotFoundException"

\* is_skip
DeployIsSkipResult(refresh, modelExists, appExists) ==
    IF refresh THEN COMPLETED
    ELSE IF GetModel(modelExists) = "ModelNotFoundException" THEN FAILED
    ELSE IF ~appExists THEN COMPLETED
    ELSE SKIPPED

\* DeployMachineApplicationStep.is_skip: the collaborator operations it invokes
DeploySkipOps(refresh, modelExists) ==
    IF refresh THEN <<>>
    ELSE IF ~modelExists THEN <<"get_model">>
    ELSE <<"get_model", "get_application", "disconnect">>

DeployAfterApply_Continue(ok) == "wait"

\* run: the terraform apply; a TerraformException returns FAILED
DeployAfterApply(ok) == IF ok THEN "wait" ELSE "fail"

\* run: wait_application_ready; a TimeoutException returns FAILED
DeployAfterWait(timedOut) == IF timedOut THEN FAILED ELSE COMPLETED

\* str(e) of the TerraformException / TimeoutException a collaborator raised
TerraformErrors == {"terraform apply failed", "terraform init failed"}
TimeoutErrors == {"timed out waiting for the application"}

CallErr(op, arg, ok, err) == [op |-> op, arg |-> arg, ok |-> ok, err |-> err]

DeployInit ==
    /\ p_refresh \in BOOLEAN
    /\ p_modelExists \in BOOLEAN
    /\ p_appExists \in BOOLEAN
    /\ (~p_modelExists => ~p_appExists)
    /\ p_units \in SUBSET Machines
    /\ (~p_appExists => p_units = {})
    /\ p_pc = "new"
    /\ p_nskip = 0
    /\ p_skipResult = "NONE"
    /\ p_runResult = "NONE"
    /\ p_machineIds = {}
    /\ p_calls = <<>>
    /\ p_message = ""

\* is_skip
DeployIsSkip ==
    /\ p_pc \in {"new", "checked"}
    /\ p_nskip < MaxSkipCalls
    /\ p_skipResult' = DeployIsSkipResult(p_refresh, p_modelExists, p_appExists)
    /\ p_nskip' = p_nskip + 1
    /\ p_pc' = "checked"
    /\ s_ops' = s_ops \o SkipOps("DeployMachineApplicationStep",
                                 DeploySkipOps(p_refresh, p_modelExists))
    /\ UNCHANGED <<p_refresh, p_modelExists, p_appExists, p_units, p_runResult,
                   p_machineIds, p_calls, p_message>>
    /\ UNCHANGED <<planVars, destroyVars, k8sVars, maintVars, addVars, removeVars, lbVars>>

\* run, first part: get the model (outside any try block, so a
\* ModelNotFoundException leaves run), collect the machine ids of the
\* application's units if the application exists, disconnect.
DeployRunLookup ==
    /\ p_pc = "checked"
    /\ p_skipResult = COMPLETED
    /\ IF GetModel(p_modelExists) = "ModelNotFoundException"
       THEN /\ p_runResult' = RAISED
            /\ p_pc' = "returned"
            /\ UNCHANGED p_machineIds
       ELSE /\ p_machineIds' = IF p_appExists THEN p_units ELSE {}
            /\ p_pc' = "apply"
            /\ UNCHANGED p_runResult
    /\ UNCHANGED <<p_refresh, p_modelExists, p_appExists, p_units, p_nskip,
                   p_skipResult, p_calls, p_message>>
    /\ UNCHANGED <<planVars, destroyVars, k8sVars, maintVars, addVars, removeVars, lbVars, skipVars>>

\* run, second part: update the tfvars and apply terraform.
DeployRunApply ==
    /\ p_pc = "apply"
    /\ \E err \in {""} \cup TerraformErrors :
         LET ok == err = ""
         IN /\ p_calls' = Append(p_calls, CallErr("apply", p_machineIds, ok, err))
            /\ p_appExists' = (p_appExists \/ ok)
            /\ IF DeployAfterApply(ok) = "fail"
               THEN p_pc' = "returned" /\ p_runResult' = FAILED /\ p_message' = err
               ELSE p_pc' = "wait" /\ UNCHANGED <<p_runResult, p_message>>
    /\ UNCHANGED <<p_refresh, p_modelExists, p_units, p_nskip, p_skipResult,
                   p_machineIds>>
    /\ UNCHANGED <<planVars, destroyVars, k8sVars, maintVars, addVars, removeVars, lbVars, skipVars>>

\* run, third part: wait for the application to be ready.
DeployRunWait ==
    /\ p_pc = "wait"
    /\ \E err \in {""} \cup TimeoutErrors :
         LET timedOut == err # ""
         IN /\ p_calls' = Append(p_calls, CallErr("wait", ApplicationTimeout, ~timedOut, err))
            /\ p_runResult' = DeployAfterWait(timedOut)
            /\ p_message' = err
    /\ p_pc' = "returned"
    /\ UNCHANGED <<p_refresh, p_modelExists, p_appExists, p_units, p_nskip,
                   p_skipResult, p_machineIds>>
    /\ UNCHANGED <<planVars, destroyVars, k8sVars, maintVars, addVars, removeVars, lbVars, skipVars>>

InitDeploy == PlanIdle /\ DestroyIdle /\ DeployInit /\ K8sIdle /\ MaintIdle /\ AddIdle
    /\ RemoveIdle /\ PatchLBIdle /\ SkipIdle

NextDeploy ==
    \/ DeployIsSkip
    \/ DeployRunLookup
    \/ DeployRunApply
    \/ DeployRunWait

SpecDeploy == InitDeploy /\ [][NextDeploy]_vars

\* ---------------------------------------------------------------- deploy claims
\* C4 (as claimed): run always returns an Outcome; no collaborator error (here
\* the model lookup) leaves run.
C4_RunNeverRaises ==
    p_runResult # "NONE" => p_runResult \in ResultType

PIdx(op) == {i \in 1..Len(p_calls) : p_calls[i].op = op}

\* C28: in DeployMachineApplicationStep.run a terraform apply failure returns
\* FAILED carrying the error text and the convergence wait is never started; a
\* wait timeout returns FAILED carrying the timeout text; COMPLETED is returned
\* only if the apply and the wait both succeeded.
C28_ApplyThenWait ==
    /\ Cardinality(PIdx("apply")) <= 1
    /\ Cardinality(PIdx("wait")) <= 1
    /\ \A a \in PIdx("apply") :
          ~p_calls[a].ok =>
              /\ p_pc = "returned"
              /\ p_runResult = FAILED
              /\ p_message = p_calls[a].err
              /\ p_message \in TerraformErrors
              /\ PIdx("wait") = {}
    /\ \A w \in PIdx("wait") :
          /\ \E a \in PIdx("apply") : a < w /\ p_calls[a].ok
          /\ ~p_calls[w].ok =>
                /\ p_runResult = FAILED
                /\ p_message = p_calls[w].err
                /\ p_message \in TimeoutErrors
    /\ p_runResult = COMPLETED =>
          /\ \E a \in PIdx("apply") : p_calls[a].ok
          /\ \E w \in PIdx("wait") : p_calls[w].ok

C28_Witness ==
    /\ p_runResult = FAILED
    /\ p_message = "terraform init failed"
    /\ p_pc = "returned"

\* ---------------------------------------------------------------- plan claims
PlanPos(s) == CHOOSE k \in 1..Len(plan) : plan[k] = s

\* C1: once a step's is_skip has returned FAILED, run is never invoked on that
\* step and neither is_skip nor run is invoked on any later step: the failed
\* check is the last invocation the plan run ever makes, and the plan is halted.
C1_FailedSkipHaltsPlan ==
    \A i \in 1..Len(pl_log) :
        (pl_log[i].op = "is_skip" /\ pl_log[i].out = FAILED)
            => /\ i = Len(pl_log)
               /\ pl_phase = "halted"

C1_Witness ==
    /\ Len(pl_log) >= 2
    /\ pl_log[Len(pl_log)].op = "is_skip"
    /\ pl_log[Len(pl_log)].out = FAILED
    /\ PlanPos(pl_log[Len(pl_log)].step) < Len(plan)

\* C2: once a step's run has returned FAILED, that FAILED outcome is the one
\* recorded for the step and the plan is halted: no later invocation exists.
C2_FailedRunRecordedAndHalts ==
    \A i \in 1..Len(pl_log) :
        (pl_log[i].op = "run" /\ pl_log[i].out = FAILED)
            => /\ i = Len(pl_log)
               /\ pl_phase = "halted"
               /\ Len(pl_results) >= 1
               /\ pl_results[Len(pl_results)] = <<pl_log[i].step, FAILED>>
               /\ \A k \in 1..Len(pl_results) :
                    pl_results[k][1] = pl_log[i].step => k = Len(pl_results)

C2_Witness ==
    /\ Len(pl_log) >= 3
    /\ pl_log[Len(pl_log)].op = "run"
    /\ pl_log[Len(pl_log)].out = FAILED
    /\ PlanPos(pl_log[Len(pl_log)].step) < Len(plan)

\* The outcomes a finished evaluation leaves, in invocation order: the is_skip
\* outcome when it is SKIPPED or FAILED, the run outcome otherwise.
RECURSIVE FinalOutcomes(_)
FinalOutcomes(log) ==
    IF log = <<>> THEN <<>>
    ELSE LET e == log[Len(log)]
             rest == FinalOutcomes(SubSeq(log, 1, Len(log) - 1))
         IN IF e.op = "is_skip" /\ e.out = COMPLETED THEN rest
            ELSE Append(rest, <<e.step, e.out>>)

\* C3: steps are evaluated strictly in list order, one at a time; is_skip and
\* run are each invoked at most once per step; run is invoked only directly
\* after that step's is_skip returned COMPLETED; after SKIPPED the plan goes on
\* with the next step; the result mapping holds exactly one outcome per
\* evaluated step, in execution order.
C3_InOrderOnceEach ==
    /\ \A i \in 1..Len(pl_log) : \E k \in 1..Len(plan) : plan[k] = pl_log[i].step
    /\ \A i, j \in 1..Len(pl_log) :
         i < j => PlanPos(pl_log[i].step) <= PlanPos(pl_log[j].step)
    /\ \A k \in 1..Len(plan) :
         (\E i \in 1..Len(pl_log) : pl_log[i].step = plan[k])
            => \A m \in 1..k : \E i \in 1..Len(pl_log) : pl_log[i].step = plan[m]
    /\ \A i, j \in 1..Len(pl_log) :
         (i # j /\ pl_log[i].step = pl_log[j].step) => pl_log[i].op # pl_log[j].op
    /\ \A j \in 1..Len(pl_log) :
         pl_log[j].op = "run"
            => /\ j > 1
               /\ pl_log[j - 1] = [step |-> pl_log[j].step, op |-> "is_skip",
                                   out |-> COMPLETED]
    /\ \A i \in 1..Len(pl_log) :
         (pl_log[i].op = "is_skip" /\ pl_log[i].out = SKIPPED /\ i < Len(pl_log))
            => /\ pl_log[i + 1].op = "is_skip"
               /\ PlanPos(pl_log[i + 1].step) = PlanPos(pl_log[i].step) + 1
    /\ pl_results = FinalOutcomes(pl_log)
    /\ Injective([k \in 1..Len(pl_results) |-> pl_results[k][1]])
    /\ pl_phase \in {"done", "halted"}
         => {pl_results[k][1] : k \in 1..Len(pl_results)}
              = {pl_log[i].step : i \in 1..Len(pl_log)}
    /\ pl_phase = "done"
         => {pl_results[k][1] : k \in 1..Len(pl_results)}
              = {plan[k] : k \in 1..Len(plan)}

C3_Witness ==
    /\ pl_phase = "done"
    /\ Len(plan) = MaxPlan
    /\ plan[1] > plan[2]
    /\ \E i \in 1..Len(pl_log) : pl_log[i].op = "is_skip" /\ pl_log[i].out = SKIPPED
    /\ \E i \in 1..Len(pl_log) : pl_log[i].op = "run"
    /\ Len(pl_results) = MaxPlan

\* ---------------------------------------------------------------- node lifecycle (core/k8s.py)
\* The node handled by cordon and drain, the namespaces its pods live in, the
\* owner-reference lists a pod may carry (kinds, in the order the API returns
\* them; the empty list stands for a pod without owner references) and the
\* persistentVolumeClaim volumes of a pod (claim names).
NodeName == "node-1"
Namespaces == {"ns-a", "ns-b"}
OwnerLists == {<<>>, <<"ReplicaSet">>, <<"DaemonSet">>,
               <<"ReplicaSet", "DaemonSet">>, <<"DaemonSet", "ReplicaSet">>}
ClaimLists == {<<>>, <<"data">>}
PodNames == <<"pod-a", "pod-b", "pod-c", "pod-d">>

PodShapes == [ns : Namespaces, owners : OwnerLists, claims : ClaimLists]

PodLists ==
    UNION { { [i \in 1..n |-> [name |-> PodNames[i], ns |-> sh[i].ns,
                               owners |-> sh[i].owners, claims |-> sh[i].claims]] :
              sh \in [1..n -> PodShapes] } : n \in 0..MaxPods }

\* HTTP status of the answer to the node patch
StatusOK == 200
StatusNotFound == 404
PatchStatuses == {StatusOK, StatusNotFound, 403, 500}

\* class K8SNodeNotFoundError(K8SError)
IsInstance(e, cls) == e = cls \/ (e = "K8SNodeNotFoundError" /\ cls = "K8SError")

K8sCall(op, kind, ns, name, ok) == [op |-> op, kind |-> kind, ns |-> ns, name |-> name, ok |-> ok]

PatchCall(name, body, status) ==
    [op |-> "patch", kind |-> "Node", ns |-> "", name |-> name, ok |-> status = StatusOK,
     body |-> body, status |-> status]

\* cordon: how the call ends for a given answer to its patch
cordon_AlwaysNotFound(status) == IF status = StatusOK THEN "OK" ELSE "K8SNodeNotFoundError"

cordon(status) ==
    IF status = StatusOK THEN "OK"
    ELSE IF status = StatusNotFound THEN "K8SNodeNotFoundError"
    ELSE "K8SError"

\* is_not_daemonset reads ownerReferences[0]; without owner references the
\* subscript raises
is_not_daemonset_raises(pod) == Len(pod.owners) = 0

is_not_daemonset(pod) == pod.owners[1] # "DaemonSet"

FilterRaises(pods) == \E i \in 1..Len(pods) : is_not_daemonset_raises(pods[i])

fetch_pods_for_eviction(pods) == SelectSeq(pods, is_not_daemonset)

\* fetch_pvc: the claims looked up, pod after pod, volume after volume
RECURSIVE PvcRefs(_)
PvcRefs(pods) ==
    IF pods = <<>> THEN <<>>
    ELSE [j \in 1..Len(Head(pods).claims) |->
              [ns |-> Head(pods).ns, name |-> Head(pods).claims[j]]]
         \o PvcRefs(Tail(pods))

\* A loop over items issuing one request per item with no exception handler:
\* the requests made when request f fails (f = 0: none fails)
LoopCalls(op, kind, items, f) ==
    [i \in 1..(IF f = 0 THEN Len(items) ELSE f) |->
        K8sCall(op, kind, items[i].ns, items[i].name, i # f)]

\* drain: the statement reached after each call returns
AfterFetchPods == "resolve"
AfterFetchPvc_DeleteFirst == "delete"
AfterFetchPvc == "evict"
AfterEvictPods == "delete"
AfterDeletePvc == "done"

K8sInit ==
    /\ k_pods \in PodLists
    /\ k_pc = "idle"
    /\ k_selected = <<>>
    /\ k_pvcs = <<>>
    /\ k_cordon = "NONE"
    /\ k_calls = <<>>

\* cordon(client, name)
Cordon ==
    /\ k_pc = "idle"
    /\ k_cordon = "NONE"
    /\ \E status \in PatchStatuses :
         /\ k_calls' = Append(k_calls,
                              PatchCall(NodeName, [unschedulable |-> TRUE], status))
         /\ k_cordon' = cordon(status)
    /\ UNCHANGED <<k_pods, k_pc, k_selected, k_pvcs>>
    /\ UNCHANGED <<planVars, destroyVars, deployVars, maintVars, addVars, removeVars, lbVars, skipVars>>

\* drain, first statement: pods = fetch_pods_for_eviction(client, name)
DrainFetchPodsForEviction ==
    /\ k_pc = "idle"
    /\ \E ok \in BOOLEAN :
         /\ k_calls' = Append(k_calls, K8sCall("list", "Pod", "*", NodeName, ok))
         /\ IF ok /\ ~FilterRaises(k_pods)
            THEN /\ k_selected' = fetch_pods_for_eviction(k_pods)
                 /\ k_pc' = AfterFetchPods
            ELSE /\ k_pc' = "raised"
                 /\ UNCHANGED k_selected
    /\ UNCHANGED <<k_pods, k_pvcs, k_cordon>>
    /\ UNCHANGED <<planVars, destroyVars, deployVars, maintVars, addVars, removeVars, lbVars, skipVars>>

\* drain, second statement: pvcs = fetch_pvc(client, pods)
DrainFetchPvc ==
    /\ k_pc = "resolve"
    /\ \E f \in 0..Len(PvcRefs(k_selected)) :
         /\ k_calls' = k_calls \o LoopCalls("get", "PersistentVolumeClaim",
                                            PvcRefs(k_selected), f)
         /\ IF f = 0
            THEN /\ k_pvcs' = PvcRefs(k_selected)
                 /\ k_pc' = AfterFetchPvc
            ELSE /\ k_pc' = "raised"
                 /\ UNCHANGED k_pvcs
    /\ UNCHANGED <<k_pods, k_selected, k_cordon>>
    /\ UNCHANGED <<planVars, destroyVars, deployVars, maintVars, addVars, removeVars, lbVars, skipVars>>

\* drain, third statement: evict_pods(client, pods)
DrainEvictPods ==
    /\ k_pc = "evict"
    /\ \E f \in 0..Len(k_selected) :
         /\ k_calls' = k_calls \o LoopCalls("evict", "Pod", k_selected, f)
         /\ k_pc' = IF f = 0 THEN AfterEvictPods ELSE "raised"
    /\ UNCHANGED <<k_pods, k_selected, k_pvcs, k_cordon>>
    /\ UNCHANGED <<planVars, destroyVars, deployVars, maintVars, addVars, removeVars, lbVars, skipVars>>

\* drain, fourth statement: delete_pvc(client, pvcs)
DrainDeletePvc ==
    /\ k_pc = "delete"
    /\ \E f \in 0..Len(k_pvcs) :
         /\ k_calls' = k_calls \o LoopCalls("delete", "PersistentVolumeClaim", k_pvcs, f)
         /\ k_pc' = IF f = 0 THEN AfterDeletePvc ELSE "raised"
    /\ UNCHANGED <<k_pods, k_selected, k_pvcs, k_cordon>>
    /\ UNCHANGED <<planVars, destroyVars, deployVars, maintVars, addVars, removeVars, lbVars, skipVars>>

InitDrain == PlanIdle /\ DestroyIdle /\ DeployIdle /\ K8sInit /\ MaintIdle /\ AddIdle
    /\ RemoveIdle /\ PatchLBIdle /\ SkipIdle

NextDrain ==
    \/ Cordon
    \/ DrainFetchPodsForEviction
    \/ DrainFetchPvc
    \/ DrainEvictPods
    \/ DrainDeletePvc

SpecDrain == InitDrain /\ [][NextDrain]_vars

\* ---------------------------------------------------------------- node lifecycle claims
KIdx(P(_)) == {i \in 1..Len(k_calls) : P(k_calls[i])}
IsList(c) == c.op = "list"
IsGet(c) == c.op = "get"
IsEvict(c) == c.op = "evict"
IsDelete(c) == c.op = "delete"
IsPatch(c) == c.op = "patch"

OwnedByDaemonSet(pod) == \E j \in 1..Len(pod.owners) : pod.owners[j] = "DaemonSet"
PodKey(pod) == [ns |-> pod.ns, name |-> pod.name]
PastFetch == k_pc \in {"resolve", "evict", "delete", "done"}
DrainEnded == k_pc \in {"done", "raised"}
ListAnswered == \E i \in KIdx(IsList) : k_calls[i].ok

\* C11: fetch_pods_for_eviction returns no pod owned by a DaemonSet, whatever
\* the number and order of the pod's owner references, and returns every pod
\* of the node that is not owned by a DaemonSet: once the pod list has been
\* delivered, the call has returned exactly the pods without a DaemonSet owner.
C11_ReturnsExactlyNonDaemonSetPods ==
    ListAnswered =>
        /\ PastFetch
        /\ \A i \in 1..Len(k_selected) : ~OwnedByDaemonSet(k_selected[i])
        /\ \A i \in 1..Len(k_pods) :
              ~OwnedByDaemonSet(k_pods[i]) =>
                  \E j \in 1..Len(k_selected) : k_selected[j] = k_pods[i]

CallKey(c) == [ns |-> c.ns, name |-> c.name]
DeletedPvcs == {CallKey(k_calls[i]) : i \in KIdx(IsDelete)}
NonDaemonSetPods == SelectSeq(k_pods, LAMBDA pod : ~OwnedByDaemonSet(pod))
SeqRange(q) == {q[i] : i \in 1..Len(q)}

\* C12: in drain the set of PVCs deleted is exactly the set of PVCs referenced
\* by persistentVolumeClaim volumes of the pods selected for eviction (the
\* non-DaemonSet pods on the node), each looked up in its pod's namespace; a
\* pod excluded from eviction contributes no PVC to the deletion set.
C12_DeletedAreClaimsOfNonDaemonSetPods ==
    k_pc = "done" => DeletedPvcs = SeqRange(PvcRefs(NonDaemonSetPods))

PhaseRank(c) ==
    IF IsList(c) THEN 1 ELSE IF IsGet(c) THEN 2 ELSE IF IsEvict(c) THEN 3 ELSE 4
DrainIdx == {i \in 1..Len(k_calls) : ~IsPatch(k_calls[i])}

\* C13: in drain no PVC is deleted before the eviction of every selected pod
\* has been requested, and the phases run once each in the fixed order fetch
\* pods, resolve PVCs, evict pods, delete PVCs.
C13_DeleteAfterAllEvictions ==
    /\ \A d \in KIdx(IsDelete) :
          \A j \in 1..Len(k_selected) :
              \E e \in KIdx(IsEvict) : e < d /\ CallKey(k_calls[e]) = PodKey(k_selected[j])
    /\ \A i, j \in DrainIdx : i < j => PhaseRank(k_calls[i]) <= PhaseRank(k_calls[j])
    /\ Cardinality(KIdx(IsList)) <= 1
    /\ \A j \in 1..Len(k_selected) :
          Cardinality({e \in KIdx(IsEvict) : CallKey(k_calls[e]) = PodKey(k_selected[j])}) <= 1

C13_Witness ==
    /\ k_pc = "done"
    /\ Cardinality(KIdx(IsEvict)) = MaxPods
    /\ KIdx(IsDelete) # {}

\* C14: within one node-lifecycle invocation the node is cordoned before any
\* of its pods is evicted: no eviction is issued for a node whose cordon has
\* not succeeded.
C14_CordonBeforeEvict ==
    \A e \in KIdx(IsEvict) : \E c \in KIdx(IsPatch) : c < e /\ k_calls[c].ok

\* C15: eviction and PVC deletion are best-effort per item: a failed eviction
\* or deletion does not stop the remaining items from being attempted, and a
\* failed eviction does not prevent the PVC deletions.
C15_BestEffortPerItem ==
    (DrainEnded /\ KIdx(IsEvict) # {}) =>
        /\ \A j \in 1..Len(k_selected) :
              \E e \in KIdx(IsEvict) : CallKey(k_calls[e]) = PodKey(k_selected[j])
        /\ \A j \in 1..Len(k_pvcs) :
              \E d \in KIdx(IsDelete) : CallKey(k_calls[d]) = k_pvcs[j]

\* C16: cordon issues exactly one patch, setting unschedulable to true on the
\* named node; an API error with status 404 surfaces as K8SNodeNotFoundError,
\* any other API error as a K8SError that is not a K8SNodeNotFoundError, and
\* the patch is never retried.
C16_CordonOnePatchDistinguishedError ==
    /\ Cardinality(KIdx(IsPatch)) <= 1
    /\ k_cordon # "NONE" =>
          /\ Cardinality(KIdx(IsPatch)) = 1
          /\ \A c \in KIdx(IsPatch) :
                /\ k_calls[c].kind = "Node"
                /\ k_calls[c].name = NodeName
                /\ k_calls[c].body = [unschedulable |-> TRUE]
                /\ k_calls[c].status = StatusOK => k_cordon = "OK"
                /\ k_calls[c].status = StatusNotFound =>
                       IsInstance(k_cordon, "K8SNodeNotFoundError")
                /\ k_calls[c].status \notin {StatusOK, StatusNotFound} =>
                       /\ IsInstance(k_cordon, "K8SError")
                       /\ ~IsInstance(k_cordon, "K8SNodeNotFoundError")

C16_Witness ==
    /\ k_cordon = "K8SError"
    /\ \E c \in KIdx(IsPatch) : k_calls[c].status = 500

\* ---------------------------------------------------------------- maintenance steps (steps/maintenance.py)
ControlRoleClasses ==
    {"DrainControlRoleNodeStep", "CordonControlRoleNodeStep", "UncordonControlRoleNodeStep"}
CreateAuditClasses ==
    {"CreateWatcherHostMaintenanceAuditStep", "CreateWatcherWorkloadBalancingAuditStep"}
RunAuditClass == "RunWatcherAuditStep"
MicroCephClass == "MicroCephActionStep"
MaintClasses ==
    ControlRoleClasses \cup CreateAuditClasses \cup {RunAuditClass, MicroCephClass}

MaintNodes == {"node-1", "node-2"}
Audits == {"audit-1", "audit-2"}
ActionLists == {<<>>, <<"migrate-1">>, <<"migrate-1", "migrate-2">>}
\* what JujuActionHelper.run_action returns, or ActionFailedException carries
ActionResults == {"result-1", "result-2"}
\* the ways JujuActionHelper.run_action ends
ActionOutcomes == {"ok", "UnitNotFoundException", "ActionFailedException", "other"}
\* message of the FAILED result of the step a control-role step extends
UnderlyingFailureTexts == {"node operation failed"}
DryRunArgs == {"unset", "True", "False"}

\* def __init__(..., dry_run: bool = True): self.dry_run = dry_run
dry_run(arg) == IF arg = "unset" THEN TRUE ELSE arg = "True"

\* step_key = f"Drain '{self.node}'" (resp. Cordon, Uncordon)
StepVerb(class) ==
    IF class = "DrainControlRoleNodeStep" THEN "Drain"
    ELSE IF class = "CordonControlRoleNodeStep" THEN "Cordon"
    ELSE "Uncordon"
step_key(class, node) == <<StepVerb(class), node>>

IdMsg(key) == [NoMsg EXCEPT !.kind = "id", !.id = key]
AuditMsg(audit, actions) == [NoMsg EXCEPT !.kind = "audit", !.audit = audit, !.actions = actions]
ActionsMsg(actions) == [NoMsg EXCEPT !.kind = "actions", !.actions = actions]
TextMsg(text) == [NoMsg EXCEPT !.kind = "text", !.text = text]

\* f"Microceph node {self.node} not found: {str(e)}"
NodeNotFoundMsg(node) ==
    [NoMsg EXCEPT !.kind = "text", !.text = "Microceph node not found", !.node = node]
ResultMsg(result) == [NoMsg EXCEPT !.kind = "result", !.result = result]

MCall(op, attempts, ok) == [op |-> op, attempts |-> attempts, ok |-> ok]

\* the control-role steps: the underlying step's run is entered unless dry_run
RunsUnderlying_Always(dryRun) == TRUE
RunsUnderlying(dryRun) == ~dryRun

\* The retrying helpers of sunbeam.core.watcher: a call that meets n retryable
\* errors in a row succeeds while attempts remain, else raises RetryError.
Retrying(n) == IF n < MaxAttempts THEN "ok" ELSE "RetryError"
AttemptsMade(n) == IF n < MaxAttempts THEN n + 1 ELSE MaxAttempts

\* CreateWatcherAuditStepABC.run: the result type for the way _create_audit
\* and _get_actions ended
CreateAuditResult_Raises(created, listed) ==
    IF created = "ok" /\ listed = "ok" THEN COMPLETED ELSE "RAISED"
CreateAuditResult(created, listed) ==
    IF created = "ok" /\ listed = "ok" THEN COMPLETED ELSE FAILED

MicroCephResult_Raises(out) == IF out = "ok" THEN COMPLETED ELSE "RAISED"

\* MicroCephActionStep.run: the result type for the way run_action ended
MicroCephResult(out) ==
    IF out = "ok" THEN COMPLETED
    ELSE IF out \in {"UnitNotFoundException", "ActionFailedException"} THEN FAILED
    ELSE "RAISED"

\* MicroCephActionStep.run: the message of the result
MicroCephMessage(out, node, result) ==
    IF out = "UnitNotFoundException" THEN NodeNotFoundMsg(node)
    ELSE IF out \in {"ok", "ActionFailedException"} THEN ResultMsg(result)
    ELSE NoMsg

\* RunWatcherAuditStep.run: the errors its except clause names
CaughtByRunAudit == {"SunbeamException", "RetryError", "WatcherActionFailedException"}
RunAuditResult(failed) == IF failed THEN FAILED ELSE COMPLETED

MaintInit ==
    /\ m_class \in MaintClasses
    /\ m_node \in MaintNodes
    /\ m_dryRunArg \in (IF m_class \in ControlRoleClasses THEN DryRunArgs ELSE {"unset"})
    /\ m_dryRun = dry_run(m_dryRunArg)
    /\ m_audit \in (IF m_class = RunAuditClass THEN Audits ELSE {""})
    /\ m_failed = FALSE
    /\ m_pc = "new"
    /\ m_resultType = "NONE"
    /\ m_message = NoMsg
    /\ m_calls = <<>>
    /\ m_inner = NoInner

\* DrainControlRoleNodeStep.run / CordonControlRoleNodeStep.run /
\* UncordonControlRoleNodeStep.run
ControlRoleRun ==
    /\ m_class \in ControlRoleClasses
    /\ m_pc = "new"
    /\ IF RunsUnderlying(m_dryRun)
       THEN \E t \in {COMPLETED, FAILED}, text \in UnderlyingFailureTexts :
               /\ m_calls' = Append(m_calls, MCall("super.run", 1, t = COMPLETED))
               /\ m_inner' = [NoInner EXCEPT !.out = t, !.node = m_node,
                                            !.text = IF t = FAILED THEN text ELSE ""]
               /\ m_resultType' = t
       ELSE /\ m_resultType' = COMPLETED
            /\ UNCHANGED <<m_calls, m_inner>>
    /\ m_message' = IdMsg(step_key(m_class, m_node))
    /\ m_pc' = "returned"
    /\ UNCHANGED <<m_class, m_node, m_dryRunArg, m_dryRun, m_audit, m_failed>>
    /\ UNCHANGED <<planVars, destroyVars, deployVars, k8sVars, addVars, removeVars, lbVars, skipVars>>

\* CreateWatcherAuditStepABC.run: audit = self._create_audit()
CreateAuditCreate ==
    /\ m_class \in CreateAuditClasses
    /\ m_pc = "new"
    /\ \E n \in 0..MaxAttempts, a \in Audits :
         /\ m_calls' = Append(m_calls,
                              MCall("create_audit", AttemptsMade(n), Retrying(n) = "ok"))
         /\ IF Retrying(n) = "ok"
            THEN /\ m_audit' = a
                 /\ m_pc' = "get_actions"
                 /\ UNCHANGED <<m_resultType, m_message>>
            ELSE /\ m_resultType' = CreateAuditResult(Retrying(n), "ok")
                 /\ m_message' = TextMsg("Unable to create Watcher audit")
                 /\ m_pc' = "returned"
                 /\ UNCHANGED m_audit
    /\ UNCHANGED <<m_inner, m_class, m_node, m_dryRunArg, m_dryRun, m_failed>>
    /\ UNCHANGED <<planVars, destroyVars, deployVars, k8sVars, addVars, removeVars, lbVars, skipVars>>

\* CreateWatcherAuditStepABC.run: actions = self._get_actions(audit), return
CreateAuditGetActions ==
    /\ m_class \in CreateAuditClasses
    /\ m_pc = "get_actions"
    /\ \E n \in 0..MaxAttempts, acts \in ActionLists :
         /\ m_calls' = Append(m_calls,
                              MCall("get_actions", AttemptsMade(n), Retrying(n) = "ok"))
         /\ m_resultType' = CreateAuditResult("ok", Retrying(n))
         /\ m_message' = IF Retrying(n) = "ok" THEN AuditMsg(m_audit, acts)
                         ELSE TextMsg("Unable to create Watcher audit")
    /\ m_pc' = "returned"
    /\ UNCHANGED <<m_inner, m_class, m_node, m_dryRunArg, m_dryRun, m_audit, m_failed>>
    /\ UNCHANGED <<planVars, destroyVars, deployVars, k8sVars, addVars, removeVars, lbVars, skipVars>>

\* RunWatcherAuditStep.run: watcher_helper.exec_audit(self.client, self.audit)
RunAuditExec ==
    /\ m_class = RunAuditClass
    /\ m_pc = "new"
    /\ \E o \in {"ok"} \cup CaughtByRunAudit :
         /\ m_calls' = Append(m_calls, MCall("exec_audit", 1, o = "ok"))
         /\ m_failed' = (o # "ok")
         /\ m_pc' = IF o = "ok" THEN "wait" ELSE "get_actions"
    /\ UNCHANGED <<m_inner, m_class, m_node, m_dryRunArg, m_dryRun, m_audit, m_resultType, m_message>>
    /\ UNCHANGED <<planVars, destroyVars, deployVars, k8sVars, addVars, removeVars, lbVars, skipVars>>

\* RunWatcherAuditStep.run: watcher_helper.wait_until_action_state(...)
RunAuditWait ==
    /\ m_class = RunAuditClass
    /\ m_pc = "wait"
    /\ \E o \in {"ok"} \cup CaughtByRunAudit :
         /\ m_calls' = Append(m_calls, MCall("wait_until_action_state", 1, o = "ok"))
         /\ m_failed' = (o # "ok")
    /\ m_pc' = "get_actions"
    /\ UNCHANGED <<m_inner, m_class, m_node, m_dryRunArg, m_dryRun, m_audit, m_resultType, m_message>>
    /\ UNCHANGED <<planVars, destroyVars, deployVars, k8sVars, addVars, removeVars, lbVars, skipVars>>

\* RunWatcherAuditStep.run: actions = watcher_helper.get_actions(...), after
\* the try statement, and the return
RunAuditGetActions ==
    /\ m_class = RunAuditClass
    /\ m_pc = "get_actions"
    /\ \E n \in 0..MaxAttempts, acts \in ActionLists :
         /\ m_calls' = Append(m_calls,
                              MCall("get_actions", AttemptsMade(n), Retrying(n) = "ok"))
         /\ IF Retrying(n) = "ok"
            THEN /\ m_resultType' = RunAuditResult(m_failed)
                 /\ m_message' = ActionsMsg(acts)
            ELSE /\ m_resultType' = "RAISED"
                 /\ UNCHANGED m_message
    /\ m_pc' = "returned"
    /\ UNCHANGED <<m_inner, m_class, m_node, m_dryRunArg, m_dryRun, m_audit, m_failed>>
    /\ UNCHANGED <<planVars, destroyVars, deployVars, k8sVars, addVars, removeVars, lbVars, skipVars>>

\* MicroCephActionStep.run
MicroCephRun ==
    /\ m_class = MicroCephClass
    /\ m_pc = "new"
    /\ \E out \in ActionOutcomes, res \in ActionResults :
         LET carried == IF out \in {"ok", "ActionFailedException"} THEN res ELSE ""
         IN /\ m_calls' = Append(m_calls, MCall("run_action", 1, out = "ok"))
            /\ m_inner' = [NoInner EXCEPT !.out = out, !.node = m_node, !.result = carried]
            /\ m_resultType' = MicroCephResult(out)
            /\ m_message' = MicroCephMessage(out, m_node, carried)
    /\ m_pc' = "returned"
    /\ UNCHANGED <<m_class, m_node, m_dryRunArg, m_dryRun, m_audit, m_failed>>
    /\ UNCHANGED <<planVars, destroyVars, deployVars, k8sVars, addVars, removeVars, lbVars, skipVars>>

InitMaint == PlanIdle /\ DestroyIdle /\ DeployIdle /\ K8sIdle /\ MaintInit /\ AddIdle
    /\ RemoveIdle /\ PatchLBIdle /\ SkipIdle

NextMaint ==
    \/ ControlRoleRun
    \/ CreateAuditCreate
    \/ CreateAuditGetActions
    \/ RunAuditExec
    \/ RunAuditWait
    \/ RunAuditGetActions
    \/ MicroCephRun

SpecMaint == InitMaint /\ [][NextMaint]_vars

\* ---------------------------------------------------------------- maintenance claims
MIdx(op) == {i \in 1..Len(m_calls) : m_calls[i].op = op}
MReturned == m_pc = "returned"

\* C17: for the Cordon, Drain and Uncordon control-role steps with dry_run set
\* (the default when the argument is left out), run returns COMPLETED carrying
\* the step's identifier and calls no collaborator; the underlying step's run
\* is invoked only when dry_run is false, and then exactly once.
C17_DryRunIsNoOp ==
    m_class \in ControlRoleClasses =>
        /\ m_dryRunArg = "unset" => m_dryRun
        /\ MIdx("super.run") # {} => ~m_dryRun
        /\ MReturned =>
              /\ m_message = IdMsg(<<StepVerb(m_class), m_node>>)
              /\ m_dryRun => m_resultType = COMPLETED /\ m_calls = <<>>
              /\ ~m_dryRun => Cardinality(MIdx("super.run")) = 1

C17_Witness ==
    /\ m_class = "CordonControlRoleNodeStep"
    /\ m_dryRunArg = "unset"
    /\ MReturned
    /\ m_resultType = COMPLETED
    /\ m_message.id = <<"Cordon", "node-2">>

\* C18: the audit-creation step returns COMPLETED with the audit and its
\* actions when audit creation and action listing succeed within the retry
\* budget, and returns FAILED, without raising, when the retry budget of
\* either call is exhausted (RetryError).
C18_CreateAuditOutcome ==
    (m_class \in CreateAuditClasses /\ MReturned) =>
        /\ m_resultType \in {COMPLETED, FAILED}
        /\ m_resultType = COMPLETED <=>
              /\ Len(m_calls) = 2
              /\ \A i \in 1..Len(m_calls) : m_calls[i].ok
        /\ m_resultType = COMPLETED =>
              /\ m_message.kind = "audit"
              /\ m_message.audit = m_audit
              /\ m_audit \in Audits
              /\ m_message.actions \in ActionLists
        /\ m_resultType = FAILED =>
              /\ m_message = TextMsg("Unable to create Watcher audit")
              /\ ~m_calls[Len(m_calls)].ok
              /\ m_calls[Len(m_calls)].attempts = MaxAttempts
        /\ Cardinality(MIdx("create_audit")) = 1
        /\ Cardinality(MIdx("get_actions")) <= 1
        /\ \A i \in MIdx("get_actions") : i = 2 /\ m_calls[1].ok

C18_Witness ==
    /\ m_class \in CreateAuditClasses
    /\ MReturned
    /\ m_resultType = COMPLETED
    /\ m_calls[1].attempts = MaxAttempts
    /\ m_message.actions # <<>>

C18_WitnessFailed ==
    /\ m_class \in CreateAuditClasses
    /\ MReturned
    /\ m_resultType = FAILED
    /\ Len(m_calls) = 2

\* C19: RunWatcherAuditStep.run calls exec_audit exactly once, starts the wait
\* only after exec_audit has succeeded, is FAILED if exec_audit or the wait
\* fails and COMPLETED otherwise, and its outcome carries the action list,
\* fetched exactly once after the execution attempt.
C19_RunAuditOutcome ==
    (m_class = RunAuditClass /\ MReturned) =>
        /\ Cardinality(MIdx("exec_audit")) = 1
        /\ \A w \in MIdx("wait_until_action_state") :
              \E e \in MIdx("exec_audit") : e < w /\ m_calls[e].ok
        /\ Cardinality(MIdx("get_actions")) = 1
        /\ \A g \in MIdx("get_actions") : \A e \in MIdx("exec_audit") : e < g
        /\ m_resultType \in {COMPLETED, FAILED}
        /\ m_resultType = FAILED <=>
              \E i \in MIdx("exec_audit") \cup MIdx("wait_until_action_state") : ~m_calls[i].ok
        /\ m_message.kind = "actions"

\* C27: MicroCephActionStep.run runs the action once on the node's microceph
\* unit and returns COMPLETED carrying the action result; when the unit is not
\* found it returns FAILED with a message naming the node, when the action
\* fails it returns FAILED carrying the action's result; neither error is
\* raised past run.
C27_MicroCephOutcome ==
    (m_class = MicroCephClass /\ MReturned) =>
        /\ Cardinality(MIdx("run_action")) = 1
        /\ m_inner.node = m_node
        /\ m_inner.out = "ok" =>
              /\ m_resultType = COMPLETED
              /\ m_message = ResultMsg(m_inner.result)
              /\ m_inner.result \in ActionResults
        /\ m_inner.out = "UnitNotFoundException" =>
              /\ m_resultType = FAILED
              /\ m_message.kind = "text"
              /\ m_message.text # ""
              /\ m_message.node = m_node
        /\ m_inner.out = "ActionFailedException" =>
              /\ m_resultType = FAILED
              /\ m_message = ResultMsg(m_inner.result)
              /\ m_inner.result \in ActionResults
        /\ m_resultType = COMPLETED => m_inner.out = "ok"

C27_Witness ==
    /\ m_class = MicroCephClass
    /\ MReturned
    /\ m_resultType = FAILED
    /\ m_inner.out = "ActionFailedException"
    /\ m_message.result = "result-2"

\* C40: when the run of an audit-creation step returns FAILED, that run
\* created no audit in the optimization service: no create_audit call of the
\* run succeeded (the step has no call that deletes an audit).
C40_FailedLeavesNoAudit ==
    (m_class \in CreateAuditClasses /\ MReturned /\ m_resultType = FAILED) =>
        \A i \in 1..Len(m_calls) : m_calls[i].op = "create_audit" => ~m_calls[i].ok

\* C25: every FAILED outcome of a step carries a non-empty text message that
\* describes the failure, and the message of an outcome is not replaced after
\* the step that produced it returned it: a control-role step hands on the
\* message of the FAILED outcome of the step it extends.
C25_FailedCarriesItsText ==
    (MReturned /\ m_resultType = FAILED) =>
        /\ m_message.kind = "text"
        /\ m_message.text # ""
        /\ m_class \in ControlRoleClasses => m_message.text = m_inner.text

\* ---------------------------------------------------------------- AddMachineUnitsStep (core/steps.py)
ANodeNames == {"node-a", "node-b"}
NameLists == {<<>>, <<"node-a">>, <<"node-b">>, <<"node-a", "node-b">>,
              <<"node-b", "node-a">>, <<"node-a", "node-a">>}
MachineIds == 1..MaxMachineId
NoMachineId == -1
UnitTimeout == 600

\* the cluster database's node table: name -> machineid
Clusters == UNION {[S -> MachineIds \cup {NoMachineId}] : S \in SUBSET ANodeNames}

\* str(n) for a machine id: its decimal digits
RECURSIVE Str(_)
Str(n) == IF n < 10 THEN <<n>> ELSE Str(n \div 10) \o <<n % 10>>

IdStrings == {Str(i) : i \in MachineIds}

\* order of Python strings of digits
RECURSIVE StrLess(_, _)
StrLess(a, b) ==
    IF a = <<>> THEN b # <<>>
    ELSE IF b = <<>> THEN FALSE
    ELSE IF a[1] # b[1] THEN a[1] < b[1]
    ELSE StrLess(Tail(a), Tail(b))

RECURSIVE sorted(_)
sorted(S) ==
    IF S = {} THEN <<>>
    ELSE LET m == CHOOSE x \in S : \A y \in S : x = y \/ StrLess(x, y)
         IN  <<m>> \o sorted(S \ {m})

\* is_skip: filtered_nodes, the ids its loop adds to to_deploy, the nodes
\* without machine id
filtered_nodes == {n \in DOMAIN a_cluster : n \in SeqRange(a_names)}
nodes_without_machine_id == {n \in filtered_nodes : a_cluster[n] = NoMachineId}
NodeMachineIds == {Str(a_cluster[n]) : n \in filtered_nodes \ nodes_without_machine_id}

ReachesLoop == Len(a_names) # 0 /\ Cardinality(filtered_nodes) = Len(a_names)
ReachesModel == ReachesLoop /\ nodes_without_machine_id = {}
ReachesSubtraction == ReachesModel /\ a_modelExists /\ a_appExists

AddSkipToDeploy_OnlyNew(toDeploy) ==
    IF ~ReachesLoop THEN toDeploy
    ELSE IF ~ReachesSubtraction THEN toDeploy \cup NodeMachineIds
    ELSE NodeMachineIds \ (a_units \cup toDeploy)

\* self.to_deploy when is_skip is left
AddSkipToDeploy(toDeploy) ==
    IF ~ReachesLoop THEN toDeploy
    ELSE IF ~ReachesSubtraction THEN toDeploy \cup NodeMachineIds
    ELSE (toDeploy \cup NodeMachineIds) \ a_units

AddSkipResult(toDeploy) ==
    IF Len(a_names) = 0 THEN SKIPPED
    ELSE IF ~ReachesModel THEN FAILED
    ELSE IF ~a_modelExists THEN RAISED
    ELSE IF ~a_appExists THEN FAILED
    ELSE IF AddSkipToDeploy(toDeploy) = {} THEN SKIPPED
    ELSE COMPLETED

AddSkipCalls ==
    (IF Len(a_names) = 0 THEN <<>> ELSE <<Call("list_nodes", "", TRUE)>>)
    \o (IF ReachesModel THEN <<Call("get_model", "", a_modelExists)>> ELSE <<>>)
    \o (IF ReachesModel /\ a_modelExists
        THEN <<Call("get_application", "", a_appExists), Call("disconnect", "", TRUE)>>
        ELSE <<>>)

\* the message of the result of is_skip: which text, and the nodes it lists
AddSkipMessage(toDeploy) ==
    IF Len(a_names) = 0 THEN NoSkipMessage
    ELSE IF ~ReachesLoop
    THEN [kind |-> "do not exist in cluster database",
          nodes |-> SeqRange(a_names) \ filtered_nodes]
    ELSE IF ~ReachesModel
    THEN [kind |-> "do not have machine id", nodes |-> nodes_without_machine_id]
    ELSE IF ~a_modelExists THEN NoSkipMessage
    ELSE IF ~a_appExists THEN [kind |-> "has not been deployed", nodes |-> {}]
    ELSE IF AddSkipToDeploy(toDeploy) = {} THEN [kind |-> "No new units to deploy", nodes |-> {}]
    ELSE NoSkipMessage

\* AddMachineUnitsStep.is_skip: the collaborator operations it invokes
AddSkipOps == [i \in 1..Len(AddSkipCalls) |-> AddSkipCalls[i].op]

\* add_machine_id_to_tfvar
MergeMachineIds_Replace(machine_ids, toDeploy) == toDeploy
MergeMachineIds(machine_ids, toDeploy) == machine_ids \cup toDeploy

AlreadyInTfvars(stored, toDeploy) == toDeploy # {} /\ toDeploy \subseteq SeqRange(stored)

add_machine_id_to_tfvar(stored, toDeploy) ==
    IF AlreadyInTfvars(stored, toDeploy) THEN stored
    ELSE sorted(MergeMachineIds(SeqRange(stored), toDeploy))

\* jhelper.add_unit: one unit per machine
UnitOn(machine) == [machine |-> machine]
add_unit(machines) == {UnitOn(m) : m \in machines}

get_unit_timeout == UnitTimeout
get_accepted_unit_status == [agent |-> <<"idle">>, workload |-> <<"active">>]

\* jhelper.wait_until_desired_status: the units converge at time t, or one of
\* them goes into error at time t, or they never reach the desired status, or
\* the call breaks with another error at time t.  The wait gives up when the
\* timeout has elapsed, not before.
WaitHappenings == {"converge", "never", "JujuWaitException", "other"}
WaitTimes == {0, UnitTimeout - 1, UnitTimeout}

wait_until_desired_status(happens, t, timeout) ==
    IF happens = "never" THEN [out |-> "TimeoutException", elapsed |-> timeout]
    ELSE IF happens = "converge" THEN [out |-> "ok", elapsed |-> t]
    ELSE [out |-> happens, elapsed |-> t]

\* run: except (JujuWaitException, TimeoutException) -> FAILED; any other
\* exception leaves run
AddAfterWait_Completed(out) == IF out = "other" THEN RAISED ELSE COMPLETED
AddAfterWait(out) ==
    IF out = "ok" THEN COMPLETED
    ELSE IF out \in {"JujuWaitException", "TimeoutException"} THEN FAILED
    ELSE RAISED

\* run: finally: if not task.done(): task.cancel()
FinallyTask_Abandon(task) == task
FinallyTask(task) == IF task = "done" THEN task ELSE "cancelled"

\* the variables stored next to machine_ids in the tfvars config item
OtherTfvars == {"", "hypervisor-vars"}

UpdatedTfvars_Fresh(tfvars, ids) == [machine_ids |-> ids, other |-> ""]

\* tfvars.update({"machine_ids": sorted(machine_ids)})
UpdatedTfvars(tfvars, ids) == [tfvars EXCEPT !.machine_ids = ids]

AddRunWrites_Always(found, addOk) == TRUE

\* run, first try statement: add_machine_id_to_tfvar is reached once
\* get_application and add_unit have returned
AddRunWrites(found, addOk) == found /\ addOk

\* run, first try statement: the result it ends with (result: none yet)
AddRunFirstTry(modelNow, appNow, addOk, result) ==
    IF ~modelNow THEN RAISED
    ELSE IF ~appNow THEN FAILED
    ELSE IF ~addOk THEN RAISED
    ELSE result

AddInit ==
    /\ a_names \in NameLists
    /\ a_cluster \in Clusters
    /\ a_modelExists \in BOOLEAN
    /\ a_appExists \in (IF a_modelExists THEN BOOLEAN ELSE {FALSE})
    /\ a_units \in (IF a_appExists THEN SUBSET IdStrings ELSE {{}})
    /\ a_configExists \in BOOLEAN
    /\ a_stored \in (IF a_configExists THEN {sorted(T) : T \in SUBSET IdStrings} ELSE {<<>>})
    /\ a_stored0 = a_stored
    /\ a_toDeploy = {}
    /\ a_pc = "new"
    /\ a_nskip = 0
    /\ a_skipResult = "NONE"
    /\ a_runResult = "NONE"
    /\ a_calls = <<>>
    /\ a_added = {}
    /\ a_task = "none"
    /\ a_skipMessage = NoSkipMessage
    /\ a_otherVars \in (IF a_configExists THEN OtherTfvars ELSE {""})

\* AddMachineUnitsStep.is_skip
AddIsSkip ==
    /\ a_pc \in {"new", "checked"}
    /\ a_nskip < MaxSkipCalls
    /\ a_toDeploy' = AddSkipToDeploy(a_toDeploy)
    /\ a_skipResult' = AddSkipResult(a_toDeploy)
    /\ a_skipMessage' = AddSkipMessage(a_toDeploy)
    /\ a_calls' = a_calls \o AddSkipCalls
    /\ a_nskip' = a_nskip + 1
    /\ a_pc' = "checked"
    /\ s_ops' = s_ops \o SkipOps("AddMachineUnitsStep", AddSkipOps)
    /\ UNCHANGED <<a_otherVars, a_names, a_cluster, a_modelExists, a_appExists, a_units,
                   a_configExists,
                   a_stored, a_stored0, a_runResult, a_added, a_task>>
    /\ UNCHANGED <<planVars, destroyVars, deployVars, k8sVars, maintVars, removeVars, lbVars>>

\* AddMachineUnitsStep.run, the first try statement: get the model and the
\* application (either may have gone since is_skip), add the units, store the
\* machine ids, disconnect.  Only ApplicationNotFoundException is caught.
AddRunAddUnits ==
    /\ a_pc = "checked"
    /\ a_skipResult = COMPLETED
    /\ a_stored0' = a_stored
    /\ \E modelNow \in {a_modelExists, FALSE}, appNow \in {a_appExists, FALSE},
          addOk \in BOOLEAN :
         LET found == modelNow /\ appNow
             added == found /\ addOk
             writes == AddRunWrites(found, addOk)
             already == AlreadyInTfvars(a_stored, a_toDeploy)
             tfvars == [machine_ids |-> a_stored, other |-> a_otherVars]
             updated == IF writes /\ ~already
                        THEN UpdatedTfvars(tfvars, add_machine_id_to_tfvar(a_stored, a_toDeploy))
                        ELSE tfvars
         IN /\ a_modelExists' = modelNow
            /\ a_appExists' = found
            /\ a_calls' = a_calls
                 \o <<Call("get_model", "", modelNow)>>
                 \o (IF modelNow THEN <<Call("get_application", "", appNow)>> ELSE <<>>)
                 \o (IF found THEN <<Call("add_unit", sorted(a_toDeploy), addOk)>> ELSE <<>>)
                 \o (IF writes THEN <<Call("read_config", "", a_configExists)>> ELSE <<>>)
                 \o (IF writes /\ ~already
                     THEN <<Call("update_config", updated.machine_ids, TRUE)>>
                     ELSE <<>>)
                 \o (IF added THEN <<Call("disconnect", "", TRUE)>> ELSE <<>>)
            /\ a_stored' = updated.machine_ids
            /\ a_otherVars' = updated.other
            /\ a_configExists' = (a_configExists \/ (writes /\ ~already))
            /\ a_units' = IF ~found THEN {}
                          ELSE IF added THEN a_units \cup a_toDeploy
                          ELSE a_units
            /\ a_added' = IF added THEN add_unit(a_toDeploy) ELSE {}
            /\ a_runResult' = AddRunFirstTry(modelNow, appNow, addOk, a_runResult)
            /\ a_pc' = IF added THEN "wait" ELSE "returned"
    /\ UNCHANGED <<a_names, a_cluster, a_toDeploy, a_nskip, a_skipResult, a_skipMessage,
                   a_task>>
    /\ UNCHANGED <<planVars, destroyVars, deployVars, k8sVars, maintVars, removeVars, lbVars, skipVars>>

\* AddMachineUnitsStep.run: task = run_sync(update_status_background(...))
AddRunStartTask ==
    /\ a_pc = "wait"
    /\ a_task' = "running"
    /\ a_calls' = Append(a_calls, Call("update_status_background", "", TRUE))
    /\ a_pc' = "waiting"
    /\ UNCHANGED <<a_otherVars, a_names, a_cluster, a_modelExists, a_appExists, a_units,
                   a_configExists,
                   a_stored, a_stored0, a_toDeploy, a_nskip, a_skipResult, a_skipMessage,
                   a_runResult,
                   a_added>>
    /\ UNCHANGED <<planVars, destroyVars, deployVars, k8sVars, maintVars, removeVars, lbVars, skipVars>>

\* AddMachineUnitsStep.run, the second try statement: wait for the units
\* (meanwhile the background task may have finished by itself), then the
\* finally clause, then the return.
AddRunWait ==
    /\ a_pc = "waiting"
    /\ \E happens \in WaitHappenings, t \in WaitTimes, taskDone \in BOOLEAN :
         LET w == wait_until_desired_status(happens, t, get_unit_timeout)
         IN /\ a_calls' = Append(a_calls,
                   Call("wait_until_desired_status",
                        [units |-> a_added,
                         status |-> get_accepted_unit_status.workload,
                         agent_status |-> get_accepted_unit_status.agent,
                         timeout |-> get_unit_timeout,
                         out |-> w.out,
                         elapsed |-> w.elapsed],
                        w.out = "ok"))
            /\ a_runResult' = AddAfterWait(w.out)
            /\ a_task' = FinallyTask(IF taskDone THEN "done" ELSE a_task)
    /\ a_pc' = "returned"
    /\ UNCHANGED <<a_otherVars, a_names, a_cluster, a_modelExists, a_appExists, a_units,
                   a_configExists,
                   a_stored, a_stored0, a_toDeploy, a_nskip, a_skipResult, a_skipMessage,
                   a_added>>
    /\ UNCHANGED <<planVars, destroyVars, deployVars, k8sVars, maintVars, removeVars, lbVars, skipVars>>

InitAddUnits == PlanIdle /\ DestroyIdle /\ DeployIdle /\ K8sIdle /\ MaintIdle /\ AddInit
    /\ RemoveIdle /\ PatchLBIdle /\ SkipIdle

NextAddUnits ==
    \/ AddIsSkip
    \/ AddRunAddUnits
    \/ AddRunStartTask
    \/ AddRunWait

SpecAddUnits == InitAddUnits /\ [][NextAddUnits]_vars

\* ---------------------------------------------------------------- add-units claims
AIdx(op) == {i \in 1..Len(a_calls) : a_calls[i].op = op}
RequestedMachineIds ==
    {Str(a_cluster[n]) : n \in {x \in DOMAIN a_cluster :
                                   x \in SeqRange(a_names) /\ a_cluster[x] # NoMachineId}}

\* C20: after is_skip of AddMachineUnitsStep returned COMPLETED, to_deploy is
\* the set of machine ids of the requested nodes minus the ids that already
\* host a unit of the application, and it is not empty; after a run that added
\* the units, the stored machine_ids collection equals the union of the
\* previously stored ids and to_deploy.
C20_ToDeployAndStoredIds ==
    /\ (a_pc = "checked" /\ a_skipResult = COMPLETED) =>
          /\ a_toDeploy = RequestedMachineIds \ a_units
          /\ a_toDeploy # {}
          /\ \A n \in SeqRange(a_names) : n \in DOMAIN a_cluster
    /\ (a_pc \in {"wait", "waiting", "returned"}
          /\ \E i \in AIdx("add_unit") : a_calls[i].ok) =>
          /\ SeqRange(a_stored) = SeqRange(a_stored0) \cup a_toDeploy
          /\ a_configExists
          /\ \A i \in AIdx("add_unit") : SeqRange(a_calls[i].arg) = a_toDeploy

C20_Witness ==
    /\ a_runResult = COMPLETED
    /\ Len(a_names) = 2
    /\ Cardinality(RequestedMachineIds) = 2
    /\ Cardinality(a_toDeploy) = 1
    /\ a_stored0 # <<>>
    /\ ~(a_toDeploy \subseteq SeqRange(a_stored0))
    /\ Len(a_stored) = 2

\* C31: is_skip of AddMachineUnitsStep returns the FAILED outcome "Nodes ...
\* do not exist in cluster database" if and only if at least one requested
\* node name is absent from the node list of the cluster database; a request
\* whose names are all present, also one that repeats a name, does not fail
\* this check.
C31_MissingNodeIffAbsent ==
    (a_pc = "checked" /\ a_nskip > 0) =>
        ((a_skipResult = FAILED /\ a_skipMessage.kind = "do not exist in cluster database")
            <=> (\E n \in SeqRange(a_names) : n \notin DOMAIN a_cluster))

\* C32: in AddMachineUnitsStep.run the new machine ids are written to the
\* stored plan variables only after add_unit has returned successfully; when
\* the application is not found and run returns FAILED, no unit has been added
\* and the stored plan variables are unchanged.
C32_WriteOnlyAfterAddUnit ==
    /\ \A u \in AIdx("update_config") :
          \E i \in AIdx("add_unit") : i < u /\ a_calls[i].ok
    /\ a_stored # a_stored0 => \E i \in AIdx("add_unit") : a_calls[i].ok
    /\ \A g \in AIdx("get_application") :
          (a_pc = "returned" /\ a_nskip > 0 /\ ~a_calls[g].ok /\ g = Len(a_calls)) =>
              /\ a_runResult = FAILED
              /\ AIdx("add_unit") = {}
              /\ a_added = {}
              /\ AIdx("update_config") = {}
              /\ a_stored = a_stored0

C32_Witness ==
    /\ a_pc = "returned"
    /\ a_runResult = FAILED
    /\ a_calls[Len(a_calls)].op = "get_application"
    /\ a_toDeploy # {}
    /\ a_stored0 # <<>>
    /\ ~(a_toDeploy \subseteq SeqRange(a_stored0))

\* C33: add_machine_id_to_tfvar never removes a machine id from the stored
\* machine_ids: the stored set after the call is a superset of the stored set
\* before it, no other stored variable changes, and when to_deploy is
\* non-empty and already contained in the stored set no write to the cluster
\* database is made.
C33_StoredIdsOnlyGrow ==
    [][/\ SeqRange(a_stored) \subseteq SeqRange(a_stored')
       /\ a_otherVars' = a_otherVars
       /\ AlreadyInTfvars(a_stored, a_toDeploy) =>
             /\ AIdx("update_config")' = AIdx("update_config")
             /\ a_stored' = a_stored]_vars

C33_Witness ==
    /\ AIdx("update_config") # {}
    /\ a_otherVars # ""
    /\ a_stored0 # <<>>
    /\ Len(a_stored) > Len(a_stored0)

C33_WitnessNoWrite ==
    /\ \E i \in AIdx("add_unit") : a_calls[i].ok
    /\ AIdx("read_config") # {}
    /\ AIdx("update_config") = {}

\* ================================================================ RemoveMachineUnitsStep (core/steps.py)
RUnitNames == {"app/0", "app/1"}

\* app.units: each unit has a name and runs on a machine
RUnitSets ==
    UNION {{{[name |-> n, machine |-> f[n]] : n \in S} : f \in [S -> IdStrings]} :
           S \in SUBSET RUnitNames}

\* filtered_nodes = list(filter(lambda node: node["name"] in self.names, nodes))
r_filtered_nodes == {n \in DOMAIN r_cluster : n \in SeqRange(r_names)}

\* to_remove_node_ids = {str(node["machineid"]) for node in filtered_nodes}
to_remove_node_ids == {Str(r_cluster[n]) : n \in r_filtered_nodes}

\* is_skip gets as far as the loop over app.units
RemoveReachesUnits == Len(r_names) # 0 /\ r_modelExists /\ r_appExists

\* self.units_to_remove when is_skip is left
RemoveSkipUnits(unitsToRemove) ==
    IF ~RemoveReachesUnits THEN unitsToRemove
    ELSE unitsToRemove \cup {u.name : u \in {v \in r_units : v.machine \in to_remove_node_ids}}

\* a variant that fails on a requested name missing from the cluster database,
\* as AddMachineUnitsStep.is_skip does
RemoveSkipResult_FailMissing(unitsToRemove) ==
    IF Len(r_names) = 0 THEN SKIPPED
    ELSE IF Cardinality(r_filtered_nodes) # Len(r_names) THEN FAILED
    ELSE IF ~r_modelExists THEN RAISED
    ELSE IF ~r_appExists THEN SKIPPED
    ELSE IF RemoveSkipUnits(unitsToRemove) = {} THEN SKIPPED
    ELSE COMPLETED

RemoveSkipResult(unitsToRemove) ==
    IF Len(r_names) = 0 THEN SKIPPED
    ELSE IF ~r_modelExists THEN RAISED
    ELSE IF ~r_appExists THEN SKIPPED
    ELSE IF RemoveSkipUnits(unitsToRemove) = {} THEN SKIPPED
    ELSE COMPLETED

\* RemoveMachineUnitsStep.is_skip: the collaborator operations it invokes
RemoveSkipOps ==
    IF Len(r_names) = 0 THEN <<>>
    ELSE IF ~r_modelExists THEN <<"list_nodes", "get_model">>
    ELSE <<"list_nodes", "get_model", "get_application", "disconnect">>

RemoveInit ==
    /\ r_names \in NameLists
    /\ r_cluster \in Clusters
    /\ r_modelExists \in BOOLEAN
    /\ r_appExists \in (IF r_modelExists THEN BOOLEAN ELSE {FALSE})
    /\ r_units \in (IF r_appExists THEN RUnitSets ELSE {{}})
    /\ r_unitsToRemove = {}
    /\ r_pc = "new"
    /\ r_nskip = 0
    /\ r_skipResult = "NONE"
    /\ r_calls = <<>>
    /\ r_removed = {}
    /\ r_runResult = "NONE"

\* RemoveMachineUnitsStep.is_skip
RemoveIsSkip ==
    /\ r_pc \in {"new", "checked"}
    /\ r_nskip < MaxSkipCalls
    /\ r_unitsToRemove' = RemoveSkipUnits(r_unitsToRemove)
    /\ r_skipResult' = RemoveSkipResult(r_unitsToRemove)
    /\ s_ops' = s_ops \o SkipOps("RemoveMachineUnitsStep", RemoveSkipOps)
    /\ r_nskip' = r_nskip + 1
    /\ r_pc' = "checked"
    /\ UNCHANGED <<r_names, r_cluster, r_modelExists, r_appExists, r_units,
                   r_calls, r_removed, r_runResult>>
    /\ UNCHANGED <<planVars, destroyVars, deployVars, k8sVars, maintVars, addVars, lbVars>>

\* errors the collaborators of run may raise: the two that run catches
\* (except (ApplicationNotFoundException, TimeoutException)) and any other
RemoveCaught == {"ApplicationNotFoundException", "TimeoutException"}
RemoveOutcomes == {"ok", "JujuException"} \cup RemoveCaught

\* outcome of run once a collaborator call ended with o: FAILED from the except
\* clause, an escaping exception otherwise; result when the call succeeded
RemoveAfterCall(o, result) ==
    IF o = "ok" THEN result ELSE IF o \in RemoveCaught THEN FAILED ELSE RAISED

\* a variant in which run goes on after a failed call
RemoveNextPc_Continue(o, next) == next

\* position of run after a collaborator call that ended with o: an exception
\* leaves the try block at once
RemoveNextPc(o, next) == IF o = "ok" THEN next ELSE "returned"

\* RemoveMachineUnitsStep.run: one pass of `for unit in self.units_to_remove`
\* (a set: the order of the units is not fixed)
RemoveRunRemoveUnit ==
    /\ r_pc \in {"checked", "removing"}
    /\ r_pc = "checked" => r_skipResult = COMPLETED
    /\ \E u \in r_unitsToRemove \ r_removed, o \in RemoveOutcomes :
         /\ r_calls' = Append(r_calls, CallErr("remove_unit", {u}, o = "ok", o))
         /\ r_removed' = r_removed \cup {u}
         /\ r_runResult' = RemoveAfterCall(o, r_runResult)
         /\ r_pc' = RemoveNextPc(o, IF r_unitsToRemove \ r_removed' = {}
                                    THEN "wait_gone" ELSE "removing")
    /\ UNCHANGED <<r_names, r_cluster, r_modelExists, r_appExists, r_units,
                   r_unitsToRemove, r_nskip, r_skipResult>>
    /\ UNCHANGED <<planVars, destroyVars, deployVars, k8sVars, maintVars, addVars, lbVars,
                   skipVars>>

\* RemoveMachineUnitsStep.run: wait_units_gone(list(self.units_to_remove), ...)
RemoveRunWaitGone ==
    /\ r_pc = "wait_gone"
    /\ \E o \in RemoveOutcomes :
         /\ r_calls' = Append(r_calls, CallErr("wait_units_gone", r_unitsToRemove, o = "ok", o))
         /\ r_units' = IF o = "ok" THEN {v \in r_units : v.name \notin r_unitsToRemove}
                       ELSE r_units
         /\ r_runResult' = RemoveAfterCall(o, r_runResult)
         /\ r_pc' = RemoveNextPc(o, "wait_ready")
    /\ UNCHANGED <<r_names, r_cluster, r_modelExists, r_appExists,
                   r_unitsToRemove, r_nskip, r_skipResult, r_removed>>
    /\ UNCHANGED <<planVars, destroyVars, deployVars, k8sVars, maintVars, addVars, lbVars,
                   skipVars>>

\* RemoveMachineUnitsStep.run: wait_application_ready(...) and the return
RemoveRunWaitReady ==
    /\ r_pc = "wait_ready"
    /\ \E o \in RemoveOutcomes :
         /\ r_calls' = Append(r_calls, CallErr("wait_application_ready", {}, o = "ok", o))
         /\ r_runResult' = RemoveAfterCall(o, COMPLETED)
         /\ r_pc' = "returned"
    /\ UNCHANGED <<r_names, r_cluster, r_modelExists, r_appExists, r_units,
                   r_unitsToRemove, r_nskip, r_skipResult, r_removed>>
    /\ UNCHANGED <<planVars, destroyVars, deployVars, k8sVars, maintVars, addVars, lbVars,
                   skipVars>>

InitRemove ==
    /\ PlanIdle /\ DestroyIdle /\ DeployIdle /\ K8sIdle /\ MaintIdle /\ AddIdle
    /\ RemoveInit /\ PatchLBIdle /\ SkipIdle

NextRemove == RemoveIsSkip \/ RemoveRunRemoveUnit \/ RemoveRunWaitGone \/ RemoveRunWaitReady

SpecRemove == InitRemove /\ [][NextRemove]_vars

RIdx(op) == {i \in 1..Len(r_calls) : r_calls[i].op = op}

\* the application's units whose machine is the machine of a named node that
\* the cluster database knows
UnitsOnNamedNodes ==
    {u.name : u \in {v \in r_units :
        \E n \in SeqRange(r_names) \cap DOMAIN r_cluster : v.machine = Str(r_cluster[n])}}

\* C34: RemoveMachineUnitsStep.is_skip never returns FAILED; it returns SKIPPED
\* when names is empty, when the application is absent from the model, and
\* when no unit of the application runs on the machine of a named node; names
\* missing from the cluster database change nothing (the outcome is decided by
\* the units on the named nodes that exist); and when it returns COMPLETED,
\* units_to_remove is exactly the set of units on machines of named nodes.
C34_RemoveIsSkipOutcome ==
    r_pc = "checked" =>
        /\ r_skipResult # FAILED
        /\ Len(r_names) = 0 => r_skipResult = SKIPPED
        /\ (r_modelExists /\ ~r_appExists) => r_skipResult = SKIPPED
        /\ (r_modelExists /\ UnitsOnNamedNodes = {}) => r_skipResult = SKIPPED
        /\ (r_modelExists /\ UnitsOnNamedNodes # {}) => r_skipResult = COMPLETED
        /\ r_skipResult = COMPLETED => r_unitsToRemove = UnitsOnNamedNodes

\* is_skip returned COMPLETED for a request that names a node the cluster
\* database does not know, and picked one of the application's two units
C34_Witness ==
    /\ r_pc = "checked"
    /\ r_skipResult = COMPLETED
    /\ SeqRange(r_names) \ DOMAIN r_cluster # {}
    /\ Cardinality(r_units) = 2
    /\ Cardinality(r_unitsToRemove) = 1

\* C35: RemoveMachineUnitsStep.run calls remove_unit for every unit of
\* units_to_remove before it starts to wait, waits for the units to be gone
\* before it waits for the application, returns COMPLETED only if every
\* removal and both waits succeeded, and after a call that ended in a timeout
\* or application-not-found returns FAILED without a further removal or wait.
C35_RemoveRunOrder ==
    /\ \A i \in RIdx("wait_units_gone") :
         /\ \A j \in RIdx("remove_unit") : j < i /\ r_calls[j].ok
         /\ UNION {r_calls[j].arg : j \in RIdx("remove_unit")} = r_unitsToRemove
         /\ r_calls[i].arg = r_unitsToRemove
    /\ \A i \in RIdx("wait_application_ready") :
         \E j \in RIdx("wait_units_gone") : j < i /\ r_calls[j].ok
    /\ \A i \in 1..Len(r_calls) : ~r_calls[i].ok => i = Len(r_calls)
    /\ (r_calls # <<>> /\ r_calls[Len(r_calls)].err \in RemoveCaught) =>
         r_pc = "returned" /\ r_runResult = FAILED
    /\ r_runResult = COMPLETED =>
         /\ \A i \in 1..Len(r_calls) : r_calls[i].ok
         /\ UNION {r_calls[j].arg : j \in RIdx("remove_unit")} = r_unitsToRemove
         /\ RIdx("wait_units_gone") # {} /\ RIdx("wait_application_ready") # {}
    /\ r_runResult = FAILED => r_calls # <<>> /\ r_calls[Len(r_calls)].err \in RemoveCaught

\* run removed the first of two units and returned FAILED when the removal of
\* the second timed out, without starting a wait
C35_Witness ==
    /\ r_pc = "returned"
    /\ r_runResult = FAILED
    /\ Cardinality(r_unitsToRemove) = 2
    /\ Len(r_calls) = 2
    /\ r_calls[2].op = "remove_unit" /\ r_calls[2].err = "TimeoutException"

\* run removed two units, waited for both to be gone and for the application,
\* and returned COMPLETED
C35_WitnessCompleted ==
    /\ r_runResult = COMPLETED
    /\ Cardinality(r_unitsToRemove) = 2
    /\ Len(r_calls) = 4

\* ================================================================ PatchLoadBalancerServicesIPStep (core/steps.py)
LbServiceNames == {"svc-a", "svc-b"}
ServiceLists == {<<>>, <<"svc-a">>, <<"svc-a", "svc-b">>}
KubeconfigStates == {"missing", "invalid", "ok"}

\* the name _get_service looks up: service_name + "-lb", or service_name
ServiceObject(name, find_lb) == <<name, IF find_lb THEN "-lb" ELSE "">>
ServiceObjects == {ServiceObject(n, lb) : n \in LbServiceNames, lb \in BOOLEAN}

\* a service without the load-balancer IP annotation: with a load-balancer
\* ingress in its status, or with no status, no status.loadBalancer, no
\* status.loadBalancer.ingress
Unannotated == {"unannotated", "no_status", "no_loadBalancer", "no_ingress"}

\* what kube.get(Service, name) finds: no such object (ApiError 404), another
\* ApiError, a service without metadata, a service without / with the
\* load-balancer IP annotation
ObjectStates == {"absent", "error", "no_metadata", "annotated"} \cup Unannotated

\* annotation values: none, one set before the step ran, and the addresses of
\* status.loadBalancer.ingress of a Service object
NoAnnotation == <<>>
PresetIP == <<"preset">>
Ingress(x) == <<<<"ingress-0", x>>, <<"ingress-1", x>>>>

\* the namespaces the step is run against: only the listed services have objects
Namespaces_Lb(services) ==
    {o \in [ServiceObjects -> ObjectStates] :
        \A x \in ServiceObjects : x[1] \notin SeqRange(services) => o[x] = "absent"}

\* _get_service(service_name, find_lb=True): the "-lb" service, or on a 404 the
\* service of that name; "absent" and "error" stand for the ApiError raised
get_service(objects, name) ==
    IF objects[ServiceObject(name, TRUE)] # "absent"
    THEN objects[ServiceObject(name, TRUE)]
    ELSE objects[ServiceObject(name, FALSE)]

get_service_ops(objects, name) ==
    IF objects[ServiceObject(name, TRUE)] # "absent"
    THEN <<"kube.get">>
    ELSE <<"kube.get", "kube.get">>

\* is_skip: the loop over self.services(), from position i on
RECURSIVE PatchSkipLoop(_, _, _)
PatchSkipLoop(objects, services, i) ==
    IF i > Len(services) THEN SKIPPED
    ELSE LET service == get_service(objects, services[i])
         IN IF service \in {"absent", "error", "no_metadata"} THEN FAILED
            ELSE IF service \in Unannotated THEN COMPLETED
            ELSE PatchSkipLoop(objects, services, i + 1)

RECURSIVE PatchSkipLoopOps(_, _, _)
PatchSkipLoopOps(objects, services, i) ==
    IF i > Len(services) THEN <<>>
    ELSE get_service_ops(objects, services[i])
         \o (IF get_service(objects, services[i]) = "annotated"
             THEN PatchSkipLoopOps(objects, services, i + 1)
             ELSE <<>>)

PatchSkipResult(kubeconfig, objects, services) ==
    IF kubeconfig # "ok" THEN FAILED ELSE PatchSkipLoop(objects, services, 1)

\* PatchLoadBalancerServicesIPStep.is_skip: the collaborator operations it invokes
PatchSkipOps(kubeconfig, objects, services) ==
    IF kubeconfig = "missing" THEN <<"read_config">>
    ELSE IF kubeconfig = "invalid" THEN <<"read_config", "KubeClient">>
    ELSE <<"read_config", "KubeClient">> \o PatchSkipLoopOps(objects, services, 1)

PatchLBInit ==
    /\ l_kubeconfig \in KubeconfigStates
    /\ l_services \in ServiceLists
    /\ l_objects \in Namespaces_Lb(l_services)
    /\ l_annotation = [x \in ServiceObjects |->
                          IF l_objects[x] = "annotated" THEN PresetIP ELSE NoAnnotation]
    /\ l_pc = "new"
    /\ l_nskip = 0
    /\ l_skipResult = "NONE"
    /\ l_i = 0
    /\ l_calls = <<>>
    /\ l_runResults = <<>>
    /\ PoolPatchIdle /\ PoolsIdle

\* PatchLoadBalancerServicesIPStep.is_skip
PatchLBIsSkip ==
    /\ l_pc \in {"new", "checked", "ran"}
    /\ l_nskip < MaxSkipCalls
    /\ l_skipResult' = PatchSkipResult(l_kubeconfig, l_objects, l_services)
    /\ s_ops' = s_ops \o SkipOps("PatchLoadBalancerServicesIPStep",
                                 PatchSkipOps(l_kubeconfig, l_objects, l_services))
    /\ l_nskip' = l_nskip + 1
    /\ l_pc' = "checked"
    /\ UNCHANGED <<l_kubeconfig, l_services, l_objects, l_annotation, l_i, l_calls,
                   l_runResults, poolPatchVars, poolsVars>>
    /\ UNCHANGED <<planVars, destroyVars, deployVars, k8sVars, maintVars, addVars, removeVars>>

\* the Service object _get_service(service_name, find_lb=True) returns
found_service(objects, name) ==
    IF objects[ServiceObject(name, TRUE)] # "absent"
    THEN ServiceObject(name, TRUE)
    ELSE ServiceObject(name, FALSE)

\* a variant of run that takes the last address of the ingress list
loadbalancer_ip_Last(x) == Ingress(x)[Len(Ingress(x))]

\* loadbalancer_ip = service.status.loadBalancer.ingress[0].ip
loadbalancer_ip(x) == Ingress(x)[1]

\* a variant of run that patches every service it finds
PatchRunStep_Always(service) ==
    IF service \in {"absent", "error", "no_metadata"} THEN "failed" ELSE "patch"

\* run, for one service of the loop: return FAILED, go on to the next service,
\* or patch the service
PatchRunStep(service) ==
    IF service \in {"absent", "error", "no_metadata"} THEN "failed"
    ELSE IF service = "annotated" THEN "next"
    ELSE IF service \in {"no_status", "no_loadBalancer", "no_ingress"} THEN "failed"
    ELSE "patch"

\* PatchLoadBalancerServicesIPStep.run is entered: after an is_skip that
\* returned COMPLETED, or once more after a run
PatchLBRunStart ==
    /\ \/ l_pc = "checked" /\ l_skipResult = COMPLETED
       \/ l_pc \in {"checked", "ran"} /\ l_runResults # <<>>
    /\ Len(l_runResults) < MaxRuns
    /\ l_i' = 1
    /\ l_pc' = "running"
    /\ UNCHANGED <<l_kubeconfig, l_services, l_objects, l_nskip, l_skipResult,
                   l_annotation, l_calls, l_runResults, poolPatchVars, poolsVars>>
    /\ UNCHANGED <<planVars, destroyVars, deployVars, k8sVars, maintVars, addVars,
                   removeVars, skipVars>>

\* PatchLoadBalancerServicesIPStep.run: the return after the loop
PatchLBRunReturn ==
    /\ l_pc = "running"
    /\ l_i > Len(l_services)
    /\ l_runResults' = Append(l_runResults, COMPLETED)
    /\ l_pc' = "ran"
    /\ UNCHANGED <<l_kubeconfig, l_services, l_objects, l_nskip, l_skipResult,
                   l_annotation, l_i, l_calls, poolPatchVars, poolsVars>>
    /\ UNCHANGED <<planVars, destroyVars, deployVars, k8sVars, maintVars, addVars,
                   removeVars, skipVars>>

\* PatchLoadBalancerServicesIPStep.run: one pass of the loop over
\* self.services(); kube.patch may raise an ApiError, which run does not catch
PatchLBRunService ==
    /\ l_pc = "running"
    /\ l_i <= Len(l_services)
    /\ LET x == found_service(l_objects, l_services[l_i])
           step == PatchRunStep(get_service(l_objects, l_services[l_i]))
       IN \E patchOk \in BOOLEAN :
           /\ step # "patch" => patchOk
           /\ l_calls' = IF step = "patch"
                         THEN Append(l_calls, [run |-> Len(l_runResults) + 1, obj |-> x,
                                               ip |-> loadbalancer_ip(x), ok |-> patchOk])
                         ELSE l_calls
           /\ l_annotation' = IF step = "patch" /\ patchOk
                              THEN [l_annotation EXCEPT ![x] = loadbalancer_ip(x)]
                              ELSE l_annotation
           /\ l_objects' = IF step = "patch" /\ patchOk
                           THEN [l_objects EXCEPT ![x] = "annotated"]
                           ELSE l_objects
           /\ l_runResults' = IF step = "failed" THEN Append(l_runResults, FAILED)
                              ELSE IF ~patchOk THEN Append(l_runResults, RAISED)
                              ELSE l_runResults
           /\ l_pc' = IF step = "failed" \/ ~patchOk THEN "ran" ELSE "running"
           /\ l_i' = l_i + 1
    /\ UNCHANGED <<l_kubeconfig, l_services, l_nskip, l_skipResult, poolPatchVars, poolsVars>>
    /\ UNCHANGED <<planVars, destroyVars, deployVars, k8sVars, maintVars, addVars,
                   removeVars, skipVars>>

InitPatchLB ==
    /\ PlanIdle /\ DestroyIdle /\ DeployIdle /\ K8sIdle /\ MaintIdle /\ AddIdle
    /\ RemoveIdle /\ PatchLBInit /\ SkipIdle

NextPatchLB == PatchLBIsSkip \/ PatchLBRunStart \/ PatchLBRunService \/ PatchLBRunReturn

SpecPatchLB == InitPatchLB /\ [][NextPatchLB]_vars

\* the kube.patch calls of the n-th run
PatchesOfRun(n) == {i \in 1..Len(l_calls) : l_calls[i].run = n}

\* C36: PatchLoadBalancerServicesIPStep.run patches a service only if it lacks
\* the load-balancer IP annotation, sets the annotation to the first ingress
\* address of that service, and leaves a service that carries the annotation
\* alone; after a run that returned COMPLETED every listed service carries the
\* annotation, the is_skip that follows returns SKIPPED, and a second run
\* issues no patch.
C36_PatchOnlyUnannotated ==
    /\ [][/\ \A x \in ServiceObjects :
               l_annotation[x] # NoAnnotation => l_annotation'[x] = l_annotation[x]
          /\ Len(l_calls') > Len(l_calls) =>
               LET c == l_calls'[Len(l_calls')]
               IN /\ l_annotation[c.obj] = NoAnnotation
                  /\ c.obj = found_service(l_objects, l_services[l_i])
                  /\ c.ip = Ingress(c.obj)[1]
                  /\ c.ok => l_annotation'[c.obj] = Ingress(c.obj)[1]]_vars
    /\ [](\A n \in 1..Len(l_runResults) :
            (l_runResults[n] = COMPLETED /\ l_pc # "running") =>
                /\ \A k \in 1..Len(l_services) :
                     l_annotation[found_service(l_objects, l_services[k])] # NoAnnotation
                /\ (l_pc = "checked" /\ l_nskip > 1) => l_skipResult = SKIPPED)
    /\ [](\A n \in 1..Len(l_runResults) :
            l_runResults[n] = COMPLETED => \A m \in (n + 1)..MaxRuns : PatchesOfRun(m) = {})

\* a run patched both listed services and returned COMPLETED, the is_skip after
\* it returned SKIPPED, and a second run returned COMPLETED as well
C36_Witness ==
    /\ Len(l_runResults) = 2
    /\ l_runResults[1] = COMPLETED /\ l_runResults[2] = COMPLETED
    /\ Cardinality(PatchesOfRun(1)) = 2
    /\ l_nskip = 2 /\ l_skipResult = SKIPPED

\* ================================================================ PatchLoadBalancerServicesIPPoolStep (core/steps.py)
\* self.pool_name, and the values an annotation of a service may have
\* ("none": the annotation is not there)
PoolName == "pool-a"
PoolValues == {"none", "pool-a", "pool-b"}
IpValues == {"none", "10.0.0.1"}
OtherValues == {"none", "kept"}

\* service.metadata.annotations: the address-pool annotation, the
\* allocated-from-pool annotation, the load-balancer IP annotation and one
\* annotation the step has no name for
Annotations == [pool : PoolValues, alloc : PoolValues, ip : IpValues, other : OtherValues]
EmptyAnnotations == [pool |-> "none", alloc |-> "none", ip |-> "none", other |-> "none"]

\* what kube.get(Service, name) finds: no object (404), another ApiError, a
\* service without metadata, or a service with annotations whose status has no
\* status / no loadBalancer / no ingress / an ingress
PoolStatusKinds == {"no_status", "no_loadBalancer", "no_ingress", "ok"}
AbsentService == [kind |-> "absent", ann |-> EmptyAnnotations]
PoolServiceValues ==
    {[kind |-> k, ann |-> EmptyAnnotations] : k \in {"error", "no_metadata"}}
    \cup {[kind |-> k, ann |-> a] : k \in PoolStatusKinds, a \in Annotations}

\* the namespaces the step is run against: every listed service has at most
\* one object, under its "-lb" name or under its own
PoolNamespaces(services) ==
    {[x \in ServiceObjects |->
        IF x[1] \in SeqRange(services) /\ x = ServiceObject(x[1], lb[x[1]])
        THEN val[x[1]] ELSE AbsentService] :
     lb \in [LbServiceNames -> BOOLEAN],
     val \in [LbServiceNames -> PoolServiceValues \cup {AbsentService}]}

\* _get_service(service_name, find_lb=True): the name of the object it returns
pool_found_service(objects, name) ==
    IF objects[ServiceObject(name, TRUE)].kind # "absent"
    THEN ServiceObject(name, TRUE)
    ELSE ServiceObject(name, FALSE)

\* a variant that is content with one of the two annotations
check_lb_pool_exists_in_annotations_Either(service_annotations, lb_pool) ==
    service_annotations.pool = lb_pool \/ service_annotations.alloc = lb_pool

check_lb_pool_exists_in_annotations(service_annotations, lb_pool) ==
    service_annotations.pool = lb_pool /\ service_annotations.alloc = lb_pool

\* run, for one service of the loop: return FAILED, go on to the next service,
\* or patch the service
PoolPatchRunStep(service) ==
    IF service.kind \in {"absent", "error", "no_metadata"} THEN "failed"
    ELSE IF check_lb_pool_exists_in_annotations(service.ann, PoolName) THEN "next"
    ELSE IF service.kind \in {"no_status", "no_loadBalancer", "no_ingress"} THEN "failed"
    ELSE "patch"

\* the annotations of the object run passes to kube.patch
PatchedAnnotations(service_annotations) ==
    [service_annotations EXCEPT !.pool = PoolName, !.ip = "none", !.alloc = "none"]

PoolPatchInit ==
    /\ q_kubeconfig \in KubeconfigStates
    /\ q_services \in ServiceLists \ {<<>>}
    /\ q_objects \in (IF q_kubeconfig = "ok" THEN PoolNamespaces(q_services)
                      ELSE {[x \in ServiceObjects |-> AbsentService]})
    /\ q_pc = "new"
    /\ q_i = 0
    /\ q_calls = <<>>
    /\ q_runResult = "NONE"

\* PatchLoadBalancerServicesIPPoolStep.run: read_config and KubeClient
PoolPatchRunStart ==
    /\ q_pc = "new"
    /\ q_runResult' = IF q_kubeconfig = "ok" THEN q_runResult ELSE FAILED
    /\ q_pc' = IF q_kubeconfig = "ok" THEN "running" ELSE "returned"
    /\ q_i' = 1
    /\ UNCHANGED <<q_kubeconfig, q_services, q_objects, q_calls>>
    /\ UNCHANGED <<l_kubeconfig, l_services, l_objects, l_pc, l_nskip, l_skipResult,
                   l_annotation, l_i, l_calls, l_runResults, poolsVars>>
    /\ UNCHANGED <<planVars, destroyVars, deployVars, k8sVars, maintVars, addVars,
                   removeVars, skipVars>>

\* PatchLoadBalancerServicesIPPoolStep.run: one pass of the loop over
\* self.services(); kube.patch may raise an ApiError, which run does not catch.
\* The cluster keeps the annotations as sent, or as merged into the old ones.
PoolPatchRunService ==
    /\ q_pc = "running"
    /\ q_i <= Len(q_services)
    /\ LET x == pool_found_service(q_objects, q_services[q_i])
           step == PoolPatchRunStep(q_objects[x])
           sent == PatchedAnnotations(q_objects[x].ann)
       IN \E patchOk \in BOOLEAN, kept \in {sent, [q_objects[x].ann EXCEPT !.pool = PoolName]} :
           /\ step # "patch" => patchOk /\ kept = sent
           /\ ~patchOk => kept = sent
           /\ q_calls' = IF step = "patch"
                         THEN Append(q_calls, [obj |-> x, before |-> q_objects[x].ann,
                                               sent |-> sent, ok |-> patchOk])
                         ELSE q_calls
           /\ q_objects' = IF step = "patch" /\ patchOk
                           THEN [q_objects EXCEPT ![x].ann = kept]
                           ELSE q_objects
           /\ q_runResult' = IF step = "failed" THEN FAILED
                             ELSE IF ~patchOk THEN RAISED
                             ELSE q_runResult
           /\ q_pc' = IF step = "failed" \/ ~patchOk THEN "returned" ELSE "running"
           /\ q_i' = q_i + 1
    /\ UNCHANGED <<q_kubeconfig, q_services>>
    /\ UNCHANGED <<l_kubeconfig, l_services, l_objects, l_pc, l_nskip, l_skipResult,
                   l_annotation, l_i, l_calls, l_runResults, poolsVars>>
    /\ UNCHANGED <<planVars, destroyVars, deployVars, k8sVars, maintVars, addVars,
                   removeVars, skipVars>>

\* PatchLoadBalancerServicesIPPoolStep.run: the return after the loop
PoolPatchRunReturn ==
    /\ q_pc = "running"
    /\ q_i > Len(q_services)
    /\ q_runResult' = COMPLETED
    /\ q_pc' = "returned"
    /\ UNCHANGED <<q_kubeconfig, q_services, q_objects, q_i, q_calls>>
    /\ UNCHANGED <<l_kubeconfig, l_services, l_objects, l_pc, l_nskip, l_skipResult,
                   l_annotation, l_i, l_calls, l_runResults, poolsVars>>
    /\ UNCHANGED <<planVars, destroyVars, deployVars, k8sVars, maintVars, addVars,
                   removeVars, skipVars>>

PatchLBOnlyPoolPatch ==
    /\ l_kubeconfig = "missing"
    /\ l_services = <<>>
    /\ l_objects = <<>>
    /\ l_annotation = <<>>
    /\ l_pc = "returned"
    /\ l_nskip = 0
    /\ l_skipResult = "NONE"
    /\ l_i = 0
    /\ l_calls = <<>>
    /\ l_runResults = <<>>
    /\ PoolPatchInit /\ PoolsIdle

InitPoolPatch ==
    /\ PlanIdle /\ DestroyIdle /\ DeployIdle /\ K8sIdle /\ MaintIdle /\ AddIdle
    /\ RemoveIdle /\ PatchLBOnlyPoolPatch /\ SkipIdle

NextPoolPatch == PoolPatchRunStart \/ PoolPatchRunService \/ PoolPatchRunReturn

SpecPoolPatch == InitPoolPatch /\ [][NextPoolPatch]_vars

\* run has looked up the service at position q_i and found it with metadata
PoolPatchLooksAt(x) ==
    /\ q_pc = "running" /\ q_i <= Len(q_services) /\ q_i' = q_i + 1
    /\ x = pool_found_service(q_objects, q_services[q_i])
    /\ q_objects[x].kind \in PoolStatusKinds

\* the address-pool annotation or the allocated-from-pool annotation of the
\* service differs from pool_name
OffPool(x) == q_objects[x].ann.pool # PoolName \/ q_objects[x].ann.alloc # PoolName

\* the step passes the service to kube.patch
PoolPatches(x) ==
    Len(q_calls') = Len(q_calls) + 1 /\ q_calls'[Len(q_calls')].obj = x

\* what the step sends for the service it patches: address-pool set, the IP
\* and allocated-from-pool annotations gone, the other annotation as it was
PoolPatchFrame(x) ==
    PoolPatches(x) =>
        LET c == q_calls'[Len(q_calls')]
        IN /\ c.sent.pool = PoolName
           /\ c.sent.ip = "none"
           /\ c.sent.alloc = "none"
           /\ c.sent.other = q_objects[x].ann.other

PoolNames == {"pool-a", "pool-b"}
AddressLists == {<<"10.0.0.0/28">>, <<"10.0.0.0/28", "10.0.1.0/28">>,
                 <<"10.0.1.0/28", "10.0.0.0/28">>}

\* self.ippools(): {<pool name>: <list of addresses>}, in dictionary order
IpPoolDicts ==
    {<<>>}
    \cup {<<[name |-> "pool-a", addresses |-> x]>> : x \in AddressLists}
    \cup {<<[name |-> "pool-a", addresses |-> x], [name |-> "pool-b", addresses |-> y]>> :
          x \in AddressLists, y \in AddressLists}

\* a value of a spec field of a kube object: a list, or a bare string
ListOf(q) == [type |-> "list", names |-> q]
StrOf(name) == [type |-> "str", names |-> <<name>>]

\* an object kube.get does not find (ApiError 404), and one it finds
AbsentObject == [state |-> "absent", spec |-> ListOf(<<>>)]
Present(spec) == [state |-> "present", spec |-> spec]

\* the IPAddressPool objects (spec["addresses"]) and the L2Advertisement
\* objects (spec["ipAddressPools"]) of the namespace
PoolObjects == {AbsentObject} \cup {Present(ListOf(x)) : x \in AddressLists}
L2Objects ==
    {AbsentObject}
    \cup {Present(ListOf(q)) : q \in {<<>>, <<"pool-a">>, <<"pool-b">>, <<"pool-a", "pool-b">>}}

\* Python `name in value`: membership in a list, part of a string (no pool
\* name of the model is part of another one)
Contains(value, name) ==
    IF value.type = "list" THEN name \in SeqRange(value.names) ELSE name = value.names[1]

\* a variant of handle_lb_pools that replaces every pool it finds
PoolWrite_AlwaysReplace(pool, addresses) ==
    IF pool.state = "absent" THEN "kube.create" ELSE "kube.replace"

\* handle_lb_pools: the write it makes once kube.get has answered
PoolWrite(pool, addresses) ==
    IF pool.state = "absent" THEN "kube.create"
    ELSE IF pool.spec # ListOf(addresses) THEN "kube.replace"
    ELSE "none"

\* handle_l2_advertisement: the write it makes once kube.get has answered
L2Write(l2advertisement, name) ==
    IF l2advertisement.state = "absent" THEN "kube.create"
    ELSE IF ~Contains(l2advertisement.spec, name) THEN "kube.replace"
    ELSE "none"

\* handle_l2_advertisement: spec["ipAddressPools"] of the object it writes
L2Written(l2advertisement, name) ==
    IF l2advertisement.state = "absent" THEN ListOf(<<name>>) ELSE StrOf(name)

KubeCall(run, op, kind, name, spec, ok) ==
    [run |-> run, op |-> op, kind |-> kind, name |-> name, spec |-> spec, ok |-> ok]

\* the calls of one handle_* call: kube.get, and the write if there is one
HandleCalls(run, kind, name, getOk, write, spec, writeOk) ==
    <<KubeCall(run, "kube.get", kind, name, ListOf(<<>>), getOk)>>
    \o (IF getOk /\ write # "none"
        THEN <<KubeCall(run, write, kind, name, spec, writeOk)>> ELSE <<>>)

PoolsInit ==
    /\ c_kubeconfig \in KubeconfigStates
    /\ c_ippools \in (IF c_kubeconfig = "ok" THEN IpPoolDicts ELSE {<<>>})
    /\ c_pools \in (IF c_kubeconfig = "ok" THEN [PoolNames -> PoolObjects]
                    ELSE {[n \in PoolNames |-> AbsentObject]})
    /\ c_l2 \in (IF c_kubeconfig = "ok" THEN [PoolNames -> L2Objects]
                 ELSE {[n \in PoolNames |-> AbsentObject]})
    /\ c_pc = "new"
    /\ c_i = 0
    /\ c_calls = <<>>
    /\ c_runResults = <<>>

\* CreateLoadBalancerIPPoolsStep.run: read_config and KubeClient
PoolsRunStart ==
    /\ c_pc \in {"new", "ran"}
    /\ Len(c_runResults) < MaxRuns
    /\ c_runResults' = IF c_kubeconfig = "ok" THEN c_runResults
                       ELSE Append(c_runResults, FAILED)
    /\ c_pc' = IF c_kubeconfig = "ok" THEN "pool" ELSE "ran"
    /\ c_i' = 1
    /\ UNCHANGED <<c_kubeconfig, c_ippools, c_pools, c_l2, c_calls>>
    /\ UNCHANGED <<l_kubeconfig, l_services, l_objects, l_pc, l_nskip, l_skipResult,
                   l_annotation, l_i, l_calls, l_runResults, poolPatchVars>>
    /\ UNCHANGED <<planVars, destroyVars, deployVars, k8sVars, maintVars, addVars,
                   removeVars, skipVars>>

\* run: handle_lb_pools(name, addresses) for one item of self.ippools(); an
\* ApiError of kube.get other than 404, or of the write, makes run return FAILED
PoolsHandleLbPools ==
    /\ c_pc = "pool"
    /\ c_i <= Len(c_ippools)
    /\ LET name == c_ippools[c_i].name
           addresses == c_ippools[c_i].addresses
           write == PoolWrite(c_pools[name], addresses)
       IN \E getOk \in BOOLEAN, writeOk \in BOOLEAN :
           /\ (~getOk \/ write = "none") => writeOk
           /\ c_calls' = c_calls \o HandleCalls(Len(c_runResults) + 1, "pool", name, getOk,
                                                write, ListOf(addresses), writeOk)
           /\ c_pools' = IF getOk /\ write # "none" /\ writeOk
                         THEN [c_pools EXCEPT ![name] = Present(ListOf(addresses))]
                         ELSE c_pools
           /\ c_runResults' = IF getOk /\ writeOk THEN c_runResults
                              ELSE Append(c_runResults, FAILED)
           /\ c_pc' = IF getOk /\ writeOk THEN "l2" ELSE "ran"
    /\ UNCHANGED <<c_kubeconfig, c_ippools, c_l2, c_i>>
    /\ UNCHANGED <<l_kubeconfig, l_services, l_objects, l_pc, l_nskip, l_skipResult,
                   l_annotation, l_i, l_calls, l_runResults, poolPatchVars>>
    /\ UNCHANGED <<planVars, destroyVars, deployVars, k8sVars, maintVars, addVars,
                   removeVars, skipVars>>

\* run: handle_l2_advertisement(name) for the same item
PoolsHandleL2Advertisement ==
    /\ c_pc = "l2"
    /\ LET name == c_ippools[c_i].name
           write == L2Write(c_l2[name], name)
           written == L2Written(c_l2[name], name)
       IN \E getOk \in BOOLEAN, writeOk \in BOOLEAN :
           /\ (~getOk \/ write = "none") => writeOk
           /\ c_calls' = c_calls \o HandleCalls(Len(c_runResults) + 1, "l2", name, getOk,
                                                write, written, writeOk)
           /\ c_l2' = IF getOk /\ write # "none" /\ writeOk
                      THEN [c_l2 EXCEPT ![name] = Present(written)]
                      ELSE c_l2
           /\ c_runResults' = IF getOk /\ writeOk THEN c_runResults
                              ELSE Append(c_runResults, FAILED)
           /\ c_pc' = IF getOk /\ writeOk THEN "pool" ELSE "ran"
           /\ c_i' = IF getOk /\ writeOk THEN c_i + 1 ELSE c_i
    /\ UNCHANGED <<c_kubeconfig, c_ippools, c_pools>>
    /\ UNCHANGED <<l_kubeconfig, l_services, l_objects, l_pc, l_nskip, l_skipResult,
                   l_annotation, l_i, l_calls, l_runResults, poolPatchVars>>
    /\ UNCHANGED <<planVars, destroyVars, deployVars, k8sVars, maintVars, addVars,
                   removeVars, skipVars>>

\* run: the return after the loop
PoolsRunReturn ==
    /\ c_pc = "pool"
    /\ c_i > Len(c_ippools)
    /\ c_runResults' = Append(c_runResults, COMPLETED)
    /\ c_pc' = "ran"
    /\ UNCHANGED <<c_kubeconfig, c_ippools, c_pools, c_l2, c_i, c_calls>>
    /\ UNCHANGED <<l_kubeconfig, l_services, l_objects, l_pc, l_nskip, l_skipResult,
                   l_annotation, l_i, l_calls, l_runResults, poolPatchVars>>
    /\ UNCHANGED <<planVars, destroyVars, deployVars, k8sVars, maintVars, addVars,
                   removeVars, skipVars>>

PatchLBOnlyPools ==
    /\ l_kubeconfig = "missing"
    /\ l_services = <<>>
    /\ l_objects = <<>>
    /\ l_annotation = <<>>
    /\ l_pc = "returned"
    /\ l_nskip = 0
    /\ l_skipResult = "NONE"
    /\ l_i = 0
    /\ l_calls = <<>>
    /\ l_runResults = <<>>
    /\ PoolPatchIdle /\ PoolsInit

InitPools ==
    /\ PlanIdle /\ DestroyIdle /\ DeployIdle /\ K8sIdle /\ MaintIdle /\ AddIdle
    /\ RemoveIdle /\ PatchLBOnlyPools /\ SkipIdle

NextPools ==
    PoolsRunStart \/ PoolsHandleLbPools \/ PoolsHandleL2Advertisement \/ PoolsRunReturn

SpecPools == InitPools /\ [][NextPools]_vars

\* the calls the step in progress has added to the log
NewCalls == SubSeq(c_calls', Len(c_calls) + 1, Len(c_calls'))

\* the writes among them
NewWrites == SelectSeq(NewCalls, LAMBDA c : c.op # "kube.get")

\* the writes to IPAddressPool objects made by the n-th run
PoolWritesOfRun(n) ==
    {i \in 1..Len(c_calls) :
        c_calls[i].run = n /\ c_calls[i].kind = "pool" /\ c_calls[i].op # "kube.get"}

\* C38: handle_lb_pools, once kube.get has answered, creates the pool with the
\* requested addresses when it is absent (404), replaces it with the requested
\* addresses when its addresses differ from them, and writes nothing when they
\* match; after a write that succeeded the pool has the requested addresses;
\* and after a run that returned COMPLETED a further run of the step with the
\* same pools makes no write to a pool.
C38_PoolsReconciled ==
    /\ [][(c_pc = "pool" /\ c_pc' # "pool" /\ c_i <= Len(c_ippools) /\ NewCalls[1].ok) =>
            LET name == c_ippools[c_i].name
                addresses == c_ippools[c_i].addresses
                pool == c_pools[name]
            IN /\ pool.state = "absent" =>
                    /\ Len(NewWrites) = 1
                    /\ NewWrites[1].op = "kube.create"
                    /\ NewWrites[1].name = name /\ NewWrites[1].spec = ListOf(addresses)
               /\ (pool.state = "present" /\ pool.spec.names # addresses) =>
                    /\ Len(NewWrites) = 1
                    /\ NewWrites[1].op = "kube.replace"
                    /\ NewWrites[1].name = name /\ NewWrites[1].spec = ListOf(addresses)
               /\ (pool.state = "present" /\ pool.spec.names = addresses) => NewWrites = <<>>
               /\ c_pc' = "l2" => c_pools'[name] = Present(ListOf(addresses))]_vars
    /\ [](\A n \in 1..Len(c_runResults) :
            c_runResults[n] = COMPLETED => \A m \in (n + 1)..MaxRuns : PoolWritesOfRun(m) = {})

\* a first run created one pool and replaced the other, and a second run
\* returned COMPLETED too
C38_Witness ==
    /\ Len(c_runResults) = 2
    /\ c_runResults[1] = COMPLETED /\ c_runResults[2] = COMPLETED
    /\ \E i, j \in PoolWritesOfRun(1) :
         c_calls[i].op = "kube.create" /\ c_calls[j].op = "kube.replace"

\* handle_l2_advertisement(name) has returned, having found the L2Advertisement
HandledExistingL2(name) ==
    /\ c_pc = "l2" /\ c_pc' = "pool"
    /\ name = c_ippools[c_i].name
    /\ c_l2[name].state = "present"

\* C39: after handle_l2_advertisement(name) has run against an existing
\* L2Advertisement, its ipAddressPools is a list of pool names that contains
\* name, and every pool name listed before the call is still listed.
C39_L2PoolsKept ==
    [][\A name \in PoolNames :
         (HandledExistingL2(name) /\ c_l2[name].spec.type = "list") =>
            /\ c_l2'[name].spec.type = "list"
            /\ name \in SeqRange(c_l2'[name].spec.names)
            /\ SeqRange(c_l2[name].spec.names) \subseteq SeqRange(c_l2'[name].spec.names)]_vars

\* ================================================================ the skip check of every step of core/steps.py
\* One step object of one of the five classes that define is_skip, and
\* is_skip called on it up to MaxSkipCalls times with no run in between.
InitIsSkip == InitDeploy \/ InitAddUnits \/ InitRemove \/ InitDestroy \/ InitPatchLB

NextIsSkip ==
    \/ DeployIsSkip
    \/ AddIsSkip
    \/ RemoveIsSkip
    \/ DestroyIsSkip
    \/ PatchLBIsSkip

SpecIsSkip == InitIsSkip /\ [][NextIsSkip]_vars

\* the state of the systems outside the step objects
ExternalState ==
    <<p_modelExists, p_appExists, p_units,
      a_cluster, a_modelExists, a_appExists, a_units, a_configExists, a_stored,
      r_cluster, r_modelExists, r_appExists, r_units,
      d_tfResources, d_modelExists, d_liveApps,
      l_kubeconfig, l_objects>>

\* the second of two is_skip calls in a row is being made on the step, and
\* the external state is what it was
C21_SecondCall(n) == n = 1 /\ n' = 2 /\ ExternalState' = ExternalState

\* C21: for AddMachineUnitsStep, RemoveMachineUnitsStep,
\* DeployMachineApplicationStep, DestroyMachineApplicationStep and
\* PatchLoadBalancerServicesIPStep, a second is_skip call in a row against
\* unchanged external state (for the destroy step: the state pull ends as it
\* did the first time) returns the same outcome kind as the first and leaves
\* to_deploy, units_to_remove and _has_tf_resources as the first call left them.
C21_IsSkipIdempotent ==
    [][/\ C21_SecondCall(a_nskip) =>
            a_skipResult' = a_skipResult /\ a_toDeploy' = a_toDeploy
       /\ C21_SecondCall(r_nskip) =>
            r_skipResult' = r_skipResult /\ r_unitsToRemove' = r_unitsToRemove
       /\ C21_SecondCall(p_nskip) => p_skipResult' = p_skipResult
       /\ (C21_SecondCall(d_nskip) /\ d_pulls'[2] = d_pulls[1]) =>
            d_skipResult' = d_skipResult /\ d_hasTfResources' = d_hasTfResources
       /\ C21_SecondCall(l_nskip) => l_skipResult' = l_skipResult]_vars

C21_Witness ==
    /\ a_nskip = 2
    /\ a_skipResult = COMPLETED
    /\ a_toDeploy # {}
    /\ a_units # {}

\* the collaborator operations that change an external system
MutatingOps ==
    {"add_unit", "remove_unit", "update_tfvars_and_apply_tf", "update_config",
     "kube.patch", "kube.create", "kube.replace", "kube.delete", "app.destroy"}

\* C22: no is_skip of a step of core/steps.py invokes a mutating collaborator
\* operation (add_unit, remove_unit, terraform apply, stored-config update,
\* kube patch/create/replace/delete, application destroy), and the state of
\* the external systems is the same after is_skip as before it, whatever
\* outcome it returns.
C22_IsSkipReadOnly ==
    /\ [](\A i \in 1..Len(s_ops) : s_ops[i].op \notin MutatingOps)
    /\ [][ExternalState' = ExternalState]_vars

C22_Witness ==
    /\ l_nskip = 2
    /\ l_skipResult = COMPLETED
    /\ \E i \in 1..Len(s_ops) : s_ops[i].op = "kube.get"
    /\ \E x \in ServiceObjects : l_objects[x] = "unannotated"

\* C23: in AddMachineUnitsStep.run the background status task, started before
\* the convergence wait, is on every exit path of the wait (success, timeout,
\* wait error, any other exception) finished or cancelled before run returns.
C23_TaskReleasedOnEveryExit ==
    /\ a_pc = "returned" => a_task \in {"none", "done", "cancelled"}
    /\ \A w \in AIdx("wait_until_desired_status") :
          \E b \in AIdx("update_status_background") : b < w
    /\ (a_pc = "returned" /\ AIdx("wait_until_desired_status") # {}) =>
          a_task \in {"done", "cancelled"}

C23_Witness ==
    /\ a_pc = "returned"
    /\ a_runResult = RAISED
    /\ a_task = "cancelled"
    /\ AIdx("wait_until_desired_status") # {}

OpenedConnections == {i \in AIdx("get_model") : a_calls[i].ok}

\* C24: every model connection a step obtains via get_model during is_skip or
\* run is disconnected before that phase returns, on every exit path: no
\* connection is still open when is_skip or run returns.
C24_NoConnectionLeftOpen ==
    a_pc \in {"checked", "returned"} =>
        Cardinality(OpenedConnections) = Cardinality(AIdx("disconnect"))

\* C26: AddMachineUnitsStep.run waits for exactly the units it has just added
\* to reach workload status active and agent status idle within
\* get_unit_timeout(); it returns COMPLETED only if that wait returned
\* successfully; when a unit never reaches idle the wait ends with a timeout no
\* earlier than the budget and run returns FAILED rather than raising.
C26_WaitsForAddedUnits ==
    /\ \A w \in AIdx("wait_until_desired_status") :
          LET arg == a_calls[w].arg
          IN /\ arg.units = {UnitOn(m) : m \in a_toDeploy}
             /\ \A a \in AIdx("add_unit") : a < w
             /\ AIdx("add_unit") # {}
             /\ arg.status = <<"active">>
             /\ arg.agent_status = <<"idle">>
             /\ arg.timeout = UnitTimeout
             /\ arg.out = "TimeoutException" =>
                   /\ arg.elapsed >= UnitTimeout
                   /\ a_pc = "returned" /\ a_runResult = FAILED
    /\ Cardinality(AIdx("wait_until_desired_status")) <= 1
    /\ a_runResult = COMPLETED =>
          \E w \in AIdx("wait_until_desired_status") : a_calls[w].ok

C26_Witness ==
    /\ a_runResult = FAILED
    /\ \E w \in AIdx("wait_until_desired_status") :
          /\ a_calls[w].arg.out = "TimeoutException"
          /\ Cardinality(a_calls[w].arg.units) = 2

====
